---- MODULE Spec2Model ----
(***************************************************************************)
(* A model of Ethereal's static evaluator (src/src/evaluate.c) and of the  *)
(* piece-square tables it relies on (src/src/psqt.c).                      *)
(*                                                                         *)
(* A bitboard is the set of the squares whose bit is set; square           *)
(* sq = 8 * rank + file, a1 = 0, h8 = 63.  A packed score is the integer   *)
(* MakeScore(mg, eg).  One call of evaluateBoard is a sequence of steps:   *)
(* the context build, the sixteen per-side evaluators called by            *)
(* evaluatePieces, and the tail of evaluateBoard (tempo, phase, scale      *)
(* factor, blend, pawn-king store, return).                                *)
(***************************************************************************)
EXTENDS Integers, Sequences, FiniteSets, Bags, TLC

(***************************************************************************)
(* Enumerations of types.h                                                 *)
(***************************************************************************)
WHITE == 0
BLACK == 1
PAWN == 0
KNIGHT == 1
BISHOP == 2
ROOK == 3
QUEEN == 4
KING == 5
MG == 0
EG == 1
SQUARE_NB == 64
FILE_NB == 8

Colours == {WHITE, BLACK}
Kinds == PAWN..KING
Squares == 0..(SQUARE_NB - 1)
Not(colour) == 1 - colour

\* the build: const int TRACE is 1 in a build with TUNE and 0 in one without
VARIABLE TRACE

(***************************************************************************)
(* Integer arithmetic of C: division truncates toward zero                 *)
(***************************************************************************)
Abs(x) == IF x < 0 THEN -x ELSE x
MAX(a, b) == IF a > b THEN a ELSE b
MIN(a, b) == IF a < b THEN a ELSE b
CDiv(a, b) == IF a >= 0 THEN a \div b ELSE -((-a) \div b)

(***************************************************************************)
(* Packed scores (evaluate.h): the endgame half lives in the high 16 bits, *)
(* the middlegame half in the low 16 bits of one 32-bit int                *)
(***************************************************************************)
Int16(u) == IF u >= 32768 THEN u - 65536 ELSE u
MakeScore(mg, eg) == eg * 65536 + mg
ScoreMG(s) == Int16(s % 65536)
ScoreEG(s) == Int16(((s + 32768) \div 65536) % 65536)
S(mg, eg) == MakeScore(mg, eg)

SCALE_OCB_BISHOPS_ONLY == 64
SCALE_OCB_ONE_KNIGHT == 106
SCALE_OCB_ONE_ROOK == 96
SCALE_NORMAL == 128

(***************************************************************************)
(* Square utilities and bitboard primitives (bitboards.h)                  *)
(***************************************************************************)
fileOf(sq) == sq % 8
rankOf(sq) == sq \div 8
square(rank, file) == 8 * rank + file
relativeRankOf(colour, sq) == IF colour = WHITE THEN rankOf(sq) ELSE 7 - rankOf(sq)
mirrorFile(file) == IF file > 3 THEN 7 - file ELSE file
distanceBetween(a, b) == MAX(Abs(fileOf(a) - fileOf(b)), Abs(rankOf(a) - rankOf(b)))
popcount(bb) == Cardinality(bb)
onlyOne(bb) == Cardinality(bb) = 1
testBit(bb, sq) == sq \in bb
getlsb(bb) == CHOOSE s \in bb : \A o \in bb : s <= o
getmsb(bb) == CHOOSE s \in bb : \A o \in bb : s >= o
backmost(colour, bb) == IF colour = WHITE THEN getlsb(bb) ELSE getmsb(bb)
Files == [f \in 0..7 |-> {s \in Squares : fileOf(s) = f}]
RANK_3 == {s \in Squares : rankOf(s) = 2}
RANK_6 == {s \in Squares : rankOf(s) = 5}
WHITE_SQUARES == {s \in Squares : (fileOf(s) + rankOf(s)) % 2 = 1}
BLACK_SQUARES == {s \in Squares : (fileOf(s) + rankOf(s)) % 2 = 0}
Full == Squares
Shift(bb, df, dr) ==
    { square(rankOf(s) + dr, fileOf(s) + df) :
        s \in { x \in bb : fileOf(x) + df \in 0..7 /\ rankOf(x) + dr \in 0..7 } }
\* Forward as it would be if it were that of White for both colours
ForwardOfWhite(colour) == 8
Forward(colour) == IF colour = WHITE THEN 8 ELSE -8
Up(colour) == IF colour = WHITE THEN 1 ELSE -1

(***************************************************************************)
(* Attack generation (attacks.h)                                           *)
(***************************************************************************)
pawnAdvance(pawns, occupied, colour) == Shift(pawns, 0, Up(colour)) \ occupied
pawnAttackSpan(pawns, targets, colour) ==
    targets \cap (Shift(pawns, -1, Up(colour)) \cup Shift(pawns, 1, Up(colour)))
PawnAttacksTbl ==
    [c \in Colours |-> [s \in Squares |-> pawnAttackSpan({s}, Full, c)]]
pawnAttacks(colour, sq) == IF sq \in Squares THEN PawnAttacksTbl[colour][sq] ELSE {}
KingSteps == { <<1, 0>>, <<1, 1>>, <<0, 1>>, <<-1, 1>>,
               <<-1, 0>>, <<-1, -1>>, <<0, -1>>, <<1, -1>> }
KnightAttacksTbl ==
    [s \in Squares |->
        UNION { Shift({s}, d[1], d[2]) :
                  d \in { <<1, 2>>, <<2, 1>>, <<2, -1>>, <<1, -2>>,
                          <<-1, -2>>, <<-2, -1>>, <<-2, 1>>, <<-1, 2>> } }]
KingAttacksTbl ==
    [s \in Squares |-> UNION { Shift({s}, d[1], d[2]) : d \in KingSteps }]
knightAttacks(sq) == KnightAttacksTbl[sq]
kingAttacks(sq) == KingAttacksTbl[sq]
\* the squares of the ray leaving sq in direction <<df, dr>>, nearest first
RayTbl ==
    [d \in KingSteps |-> [s \in Squares |->
        [i \in 1..Cardinality({ k \in 1..7 : fileOf(s) + k * d[1] \in 0..7
                                           /\ rankOf(s) + k * d[2] \in 0..7 })
            |-> square(rankOf(s) + i * d[2], fileOf(s) + i * d[1])]]]
\* a slider sees along a ray up to and including the first occupied square
RayAttacks(ray, occupied) ==
    { ray[i] : i \in { k \in 1..Len(ray) : \A j \in 1..(k - 1) : ray[j] \notin occupied } }
bishopAttacks(sq, occupied) ==
    UNION { RayAttacks(RayTbl[d][sq], occupied) : d \in { <<1, 1>>, <<-1, 1>>, <<-1, -1>>, <<1, -1>> } }
rookAttacks(sq, occupied) ==
    UNION { RayAttacks(RayTbl[d][sq], occupied) : d \in { <<1, 0>>, <<0, 1>>, <<-1, 0>>, <<0, -1>> } }

(***************************************************************************)
(* Mask tables (masks.h)                                                   *)
(***************************************************************************)
adjacentFilesMasks(file) ==
    { s \in Squares : fileOf(s) = file - 1 \/ fileOf(s) = file + 1 }
\* the ranks at or above rank, seen from colour
forwardRanksMasks(colour, rank) ==
    { s \in Squares : IF colour = WHITE THEN rankOf(s) >= rank ELSE rankOf(s) <= rank }
PassedPawnMasksTbl ==
    [c \in Colours |-> [sq \in Squares |->
        { s \in Squares : /\ Abs(fileOf(s) - fileOf(sq)) <= 1
                          /\ IF c = WHITE THEN rankOf(s) > rankOf(sq)
                                          ELSE rankOf(s) < rankOf(sq) }]]
passedPawnMasks(colour, sq) == PassedPawnMasksTbl[colour][sq]
outpostRanksMasks(colour) ==
    { s \in Squares : relativeRankOf(colour, s) \in 3..5 }
outpostSquareMasks(colour, sq) == passedPawnMasks(colour, sq) \ Files[fileOf(sq)]
\* the squares of the pawns that support sq or stand beside it
pawnConnectedMasks(colour, sq) ==
    pawnAttacks(Not(colour), sq) \cup (Shift({sq}, -1, 0) \cup Shift({sq}, 1, 0))
\* the 3x3 block around the king, moved one rank forward for a king on its back rank
kingAreaMasks(colour, sq) ==
    LET centre == IF relativeRankOf(colour, sq) = 0 THEN sq + Forward(colour) ELSE sq
    IN  kingAttacks(centre) \cup {centre}

(***************************************************************************)
(* Evaluation terms of evaluate.c.  A C array a[i][j] is the tuple of      *)
(* tuples a, read as a[i + 1][j + 1]                                       *)
(***************************************************************************)
PieceValues ==
    << << 110, 129 >>, << 460, 412 >>, << 481, 430 >>, << 677, 714 >>, << 1263, 1375 >>, << 0
   , 0 >>, << 0, 0 >>, << 0, 0 >> >>
PawnCandidatePasser ==
    << << S(0, 0), S(-26, -11), S(-12, 9), S(-12, 27), S(3, 62), S(47, 68), S(0, 0), S(0, 0)
    >>, << S(0, 0), S(-13, 14), S(-5, 21), S(4, 44), S(16, 85), S(33, 52), S(0, 0), S(0, 0)
    >> >>
PawnIsolated ==
    S(-8, -10)
PawnStacked ==
    S(-19, -26)
PawnBackwards ==
    << S(8, -2), S(-6, -18) >>
PawnConnected32 ==
    << S(0, 0), S(0, 0), S(0, 0), S(0, 0), S(-2, -7), S(11, 0), S(4, 0), S(4, 18), S(15, 0),
    S(34, -1), S(22, 10), S(26, 18), S(10, 0), S(23, 4), S(10, 12), S(15, 23), S(16, 7),
    S(24, 14), S(31, 20), S(34, 21), S(57, 26), S(53, 47), S(69, 55), S(82, 59), S(110, -1),
    S(202, 10), S(227, 28), S(240, 51), S(0, 0), S(0, 0), S(0, 0), S(0, 0) >>
KnightOutpost ==
    << S(7, -25), S(31, -3) >>
KnightBehindPawn ==
    S(4, 21)
\* the table as it would be with eight entries, for 0 to 7 squares
KnightMobilityShort ==
    << S(-81, -101), S(-32, -99), S(-17, -43), S(-3, -17), S(8, -6), S(15, 8), S(24, 12),
    S(34, 12) >>
KnightMobility ==
    << S(-81, -101), S(-32, -99), S(-17, -43), S(-3, -17), S(8, -6), S(15, 8), S(24, 12),
    S(34, 12), S(45, 0) >>
BishopPair ==
    S(26, 70)
BishopRammedPawns ==
    S(-10, -16)
BishopOutpost ==
    << S(10, -11), S(42, 0) >>
BishopBehindPawn ==
    S(3, 19)
BishopMobility ==
    << S(-64, -146), S(-28, -95), S(-8, -55), S(2, -29), S(12, -16), S(19, -1), S(22, 8),
    S(22, 14), S(22, 19), S(24, 20), S(23, 20), S(39, 9), S(40, 13), S(65, -20) >>
RookFile ==
    << S(18, 6), S(40, 2) >>
RookOnSeventh ==
    S(0, 32)
RookMobility ==
    << S(-149, -112), S(-52, -116), S(-12, -62), S(-4, -20), S(-5, 0), S(-5, 15), S(-4, 25),
    S(1, 28), S(8, 31), S(11, 36), S(14, 42), S(18, 46), S(18, 51), S(25, 45), S(70, 17) >>
QueenMobility ==
    << S(-61, -263), S(-211, -387), S(-60, -202), S(-25, -192), S(-13, -141), S(-8, -90),
    S(-2, -62), S(-3, -35), S(0, -24), S(0, -1), S(3, 10), S(4, 23), S(6, 24), S(8, 34),
    S(5, 39), S(5, 42), S(3, 46), S(-1, 45), S(0, 39), S(-3, 33), S(4, 12), S(18, -7),
    S(19, -37), S(21, -55), S(5, -70), S(20, -95), S(-57, -39), S(-27, -54) >>
KingDefenders ==
    << S(-21, -3), S(-9, 0), S(0, 2), S(7, 4), S(16, 5), S(27, 2), S(32, 0), S(14, 0),
    S(12, 6), S(12, 6), S(12, 6), S(12, 6) >>
KingShelter ==
    << << << S(-12, 4), S(16, -24), S(18, -9), S(9, 2), S(4, 3), S(7, 2), S(-2, -32),
    S(-49, 19) >>, << S(16, -6), S(23, -18), S(0, -5), S(-17, 2), S(-30, 13), S(-69, 69),
    S(93, 84), S(-29, 3) >>, << S(32, -1), S(16, -9), S(-26, 6), S(-11, -9), S(-22, -4),
    S(-7, -1), S(0, 66), S(-15, 0) >>, << S(3, 13), S(20, -8), S(3, -11), S(14, -23),
    S(23, -35), S(-51, 1), S(-137, 51), S(3, -5) >>, << S(-13, 8), S(1, -2), S(-26, 0),
    S(-18, 2), S(-20, -8), S(-38, 0), S(34, -15), S(-8, -1) >>, << S(44, -14), S(25, -18),
    S(-21, 0), S(-12, -19), S(4, -25), S(17, -23), S(42, -29), S(-25, 1) >>, << S(23, -10),
    S(1, -17), S(-23, -4), S(-19, -11), S(-29, -9), S(-34, 31), S(0, 44), S(-12, 3) >>, <<
    S(-10, -8), S(7, -18), S(8, -2), S(-2, 7), S(-11, 13), S(-9, 37), S(-190, 87), S(-19, 15)
    >> >>, << << S(0, 0), S(-10, -22), S(0, -16), S(-42, 16), S(-18, 0), S(3, 43),
    S(-167, -9), S(-45, 11) >>, << S(0, 0), S(25, -20), S(6, -8), S(-19, -3), S(0, -15),
    S(28, 71), S(-184, -4), S(-42, 6) >>, << S(0, 0), S(35, -11), S(-1, -6), S(8, -18),
    S(13, -8), S(-91, 48), S(-85, -75), S(-22, -3) >>, << S(0, 0), S(-1, 9), S(-1, 1),
    S(-15, 0), S(-26, 0), S(-101, 29), S(7, -42), S(-23, -4) >>, << S(0, 0), S(11, 3),
    S(11, -5), S(13, -11), S(13, -24), S(-54, 15), S(-105, -63), S(-2, -6) >>, << S(0, 0),
    S(9, -6), S(-20, 0), S(-27, -8), S(18, -26), S(-39, 2), S(56, 39), S(-21, -3) >>, <<
    S(0, 0), S(24, -13), S(11, -12), S(-10, -9), S(-29, 5), S(-8, 14), S(-56, -51),
    S(-34, 14) >>, << S(0, 0), S(14, -36), S(19, -27), S(-18, -5), S(-17, 15), S(-1, 15),
    S(-229, -57), S(-23, 6) >> >> >>
KingStorm ==
    << << << S(1, 23), S(114, -11), S(-26, 24), S(-22, 10), S(-13, 2), S(-8, -2), S(-18, 6),
    S(-22, -2) >>, << S(0, 45), S(57, 11), S(-18, 23), S(-6, 11), S(-3, 4), S(5, -4), S(0, 0)
   , S(-12, 0) >>, << S(11, 34), S(20, 20), S(-24, 20), S(-13, 9), S(3, 2), S(7, 0), S(8, -7)
   , S(2, -1) >>, << S(0, 23), S(20, 18), S(-13, 8), S(-15, 3), S(-13, 1), S(7, -10),
    S(0, -7), S(-14, 2) >> >>, << << S(0, 0), S(-11, -13), S(-16, -1), S(20, -16), S(11, -7)
   , S(0, -17), S(-7, 0), S(16, 27) >>, << S(0, 0), S(-13, -28), S(-7, -10), S(32, -13),
    S(-1, 0), S(10, -22), S(-11, -8), S(-15, 2) >>, << S(0, 0), S(-23, -42), S(-30, -8),
    S(9, -10), S(2, -1), S(-9, -14), S(-13, -13), S(-10, 5) >>, << S(0, 0), S(-1, -14),
    S(-17, -18), S(-11, -3), S(-4, -5), S(6, -29), S(67, -6), S(12, 18) >> >> >>
KSAttackWeight ==
    << 0, 16, 6, 10, 8, 0 >>
KSAttackValue == 44
KSWeakSquares == 38
KSFriendlyPawns == -22
KSNoEnemyQueens == -276
KSSafeQueenCheck == 95
KSSafeRookCheck == 94
KSSafeBishopCheck == 51
KSSafeKnightCheck == 123
KSAdjustment == -18
PassedPawn ==
    << << << S(0, 0), S(-38, 0), S(-53, 22), S(-83, 26), S(-6, 16), S(66, 0), S(152, 59),
    S(0, 0) >>, << S(0, 0), S(-26, 1), S(-46, 20), S(-71, 25), S(-13, 27), S(84, 27),
    S(183, 94), S(0, 0) >> >>, << << S(0, 0), S(-25, 10), S(-47, 17), S(-74, 32), S(-2, 34),
    S(88, 41), S(258, 123), S(0, 0) >>, << S(0, 0), S(-28, 6), S(-40, 13), S(-65, 35),
    S(-3, 58), S(76, 140), S(156, 302), S(0, 0) >> >> >>
PassedFriendlyDistance ==
    << S(0, 0), S(0, 0), S(3, -3), S(7, -11), S(6, -16), S(-6, -16), S(-13, -11), S(0, 0) >>
PassedEnemyDistance ==
    << S(0, 0), S(3, 0), S(4, 1), S(8, 10), S(1, 25), S(8, 34), S(24, 37), S(0, 0) >>
PassedSafePromotionPath ==
    S(-27, 36)
ThreatWeakPawn ==
    S(-14, -28)
ThreatMinorAttackedByPawn ==
    S(-56, -47)
ThreatMinorAttackedByMinor ==
    S(-28, -35)
ThreatMinorAttackedByMajor ==
    S(-25, -44)
ThreatRookAttackedByLesser ==
    S(-58, -10)
ThreatQueenAttackedByOne ==
    S(-48, -15)
ThreatOverloadedPieces ==
    S(-8, -16)
ThreatByPawnPush ==
    S(16, 20)
\* Tempo as it would be with the entries of the two colours exchanged
TempoExchanged ==
    << S(-25, -12), S(25, 12) >>
Tempo ==
    << S(25, 12), S(-25, -12) >>

(***************************************************************************)
(* Quarter-board piece-square tables of psqt.c                             *)
(***************************************************************************)
PawnPSQT32 ==
    << S(0, 0), S(0, 0), S(0, 0), S(0, 0), S(-15, 11), S(9, 2), S(-14, 5), S(-10, -3),
    S(-17, 4), S(-12, 5), S(-7, -10), S(-5, -18), S(-17, 19), S(-10, 14), S(18, -17),
    S(15, -35), S(-3, 24), S(4, 13), S(6, -2), S(21, -29), S(-8, 41), S(-9, 37), S(-1, 17),
    S(29, -11), S(-13, -15), S(-78, 17), S(25, -25), S(49, -27), S(0, 0), S(0, 0), S(0, 0),
    S(0, 0) >>
KnightPSQT32 ==
    << S(-72, -10), S(-16, -48), S(-25, -25), S(-10, -28), S(-13, -11), S(1, -24),
    S(-12, -33), S(0, -25), S(-6, -26), S(14, -30), S(5, -29), S(13, -7), S(13, 7), S(8, 11)
   , S(20, 14), S(18, 24), S(24, 22), S(21, 10), S(33, 26), S(20, 43), S(-11, 20), S(0, 11),
    S(36, 24), S(12, 38), S(1, 9), S(-24, 12), S(11, -10), S(70, 6), S(-144, -2), S(-62, 24)
   , S(-107, 43), S(-19, 23) >>
BishopPSQT32 ==
    << S(13, -15), S(15, -22), S(-20, -6), S(5, -13), S(27, -27), S(19, -28), S(18, -14),
    S(3, -6), S(11, -6), S(24, -12), S(11, -3), S(14, 0), S(7, -10), S(15, 0), S(12, 8),
    S(11, 14), S(-19, 10), S(14, 5), S(-1, 14), S(2, 23), S(1, 2), S(-11, 23), S(10, 15),
    S(15, 15), S(-43, 17), S(-50, 13), S(-2, 13), S(-30, 11), S(-33, 14), S(-36, 20),
    S(-94, 24), S(-118, 31) >>
RookPSQT32 ==
    << S(-8, -36), S(-21, -20), S(-6, -27), S(0, -36), S(-71, -17), S(-25, -34), S(-20, -35)
   , S(-11, -39), S(-27, -21), S(-9, -16), S(-30, -18), S(-13, -25), S(-14, -4), S(-11, 13),
    S(-21, 7), S(-9, 2), S(-5, 23), S(17, 23), S(12, 14), S(26, 8), S(-17, 37), S(12, 29),
    S(-14, 37), S(16, 19), S(-5, 24), S(-24, 36), S(-14, 27), S(12, 25), S(40, 26), S(36, 32)
   , S(23, 39), S(-4, 43) >>
QueenPSQT32 ==
    << S(13, -82), S(-26, -27), S(-9, -60), S(2, -48), S(6, -28), S(16, -65), S(17, -86),
    S(1, -19), S(-2, -16), S(14, -21), S(-3, 4), S(-7, -3), S(0, -8), S(-1, 27), S(-17, 35),
    S(-32, 80), S(-4, -4), S(-20, 56), S(-34, 43), S(-46, 92), S(-35, 31), S(-38, 45),
    S(-45, 50), S(-21, 32), S(-15, 41), S(-69, 82), S(-33, 41), S(-45, 66), S(-1, 41),
    S(-3, 44), S(-12, 35), S(8, 41) >>
KingPSQT32 ==
    << S(50, -110), S(50, -75), S(4, -44), S(-4, -62), S(32, -49), S(1, -43), S(-27, -17),
    S(-32, -18), S(11, -49), S(13, -41), S(8, -15), S(-9, -2), S(-6, -38), S(60, -35),
    S(23, 5), S(-33, 18), S(-3, -5), S(88, -16), S(35, 24), S(-13, 31), S(61, -2), S(120, -1)
   , S(99, 30), S(47, 25), S(17, -3), S(51, 12), S(28, 29), S(2, 15), S(15, -94), S(79, -50)
   , S(-13, -1), S(-17, 18) >>

(***************************************************************************)
(* psqt.c: the full piece-square tables.  PSQT[c][k][s] is the C entry     *)
(* PSQT[makePiece(k, c)][s]                                                *)
(***************************************************************************)
\* the table as it would be if it held the file within its half of the board
edgeDistanceWithinHalf == << 0, 1, 2, 3, 0, 1, 2, 3 >>
edgeDistance == << 0, 1, 2, 3, 3, 2, 1, 0 >>
\* relativeSquare32 as it would be without the flip of the ranks for Black
relativeSquare32Unflipped(s, c) == 4 * rankOf(s) + edgeDistance[fileOf(s) + 1]
relativeSquare32(s, c) == 4 * relativeRankOf(c, s) + edgeDistance[fileOf(s) + 1]
PSQT32 ==
    << PawnPSQT32, KnightPSQT32, BishopPSQT32, RookPSQT32, QueenPSQT32, KingPSQT32 >>
\* initializePSQT: the table as it is once filled
PSQT ==
    [c \in Colours |-> [k \in Kinds |-> [s \in Squares |->
        IF c = WHITE
        THEN   MakeScore(PieceValues[k + 1][MG + 1], PieceValues[k + 1][EG + 1])
             + PSQT32[k + 1][relativeSquare32(s, WHITE) + 1]
        ELSE - MakeScore(PieceValues[k + 1][MG + 1], PieceValues[k + 1][EG + 1])
             - PSQT32[k + 1][relativeSquare32(s, BLACK) + 1]]]]

(***************************************************************************)
(* The Board handed to the evaluator (board.h) and the pawn-king table     *)
(* (transposition.h)                                                       *)
(***************************************************************************)
RECURSIVE SumOver(_, _, _)
SumOver(bb, c, k) ==
    IF bb = {} THEN 0
    ELSE LET s == getlsb(bb) IN PSQT[c][k][s] + SumOver(bb \ {s}, c, k)
\* psqtmat as the move-making code maintains it: the sum over the pieces on the board
PsqtMatOf(colours, pieces) ==
    LET side(c) ==
            SumOver(pieces[PAWN] \cap colours[c], c, PAWN)
          + SumOver(pieces[KNIGHT] \cap colours[c], c, KNIGHT)
          + SumOver(pieces[BISHOP] \cap colours[c], c, BISHOP)
          + SumOver(pieces[ROOK] \cap colours[c], c, ROOK)
          + SumOver(pieces[QUEEN] \cap colours[c], c, QUEEN)
          + SumOver(pieces[KING] \cap colours[c], c, KING)
    IN  side(WHITE) + side(BLACK)
\* pkhash: a key of the placement of both sides' pawns and both kings, and of nothing else
PkHashOf(colours, pieces) ==
    << pieces[PAWN] \cap colours[WHITE], pieces[PAWN] \cap colours[BLACK],
       pieces[KING] \cap colours[WHITE], pieces[KING] \cap colours[BLACK] >>
\* a Board from the squares of White's and of Black's pawns, knights, bishops, rooks,
\* queens and king, and the side to move
MakeBoard(w, b, turn) ==
    LET colours == [c \in Colours |->
                        IF c = WHITE THEN UNION { w[k + 1] : k \in Kinds }
                                     ELSE UNION { b[k + 1] : k \in Kinds }]
        pieces == [k \in Kinds |-> w[k + 1] \cup b[k + 1]]
    IN  [ colours |-> colours, pieces |-> pieces, turn |-> turn,
          psqtmat |-> PsqtMatOf(colours, pieces), pkhash |-> PkHashOf(colours, pieces) ]

\* a null PawnKingEntry pointer, and a null PawnKingTable pointer
NULL == -1
NULL_TABLE == << >>
\* number of slots of a pawn-king table
PktSize == 2
RECURSIVE SumSquares(_)
SumSquares(bb) == IF bb = {} THEN 0 ELSE LET s == getlsb(bb) IN s + SumSquares(bb \ {s})
\* the slot a pkhash maps to (direct mapped)
PktIndex(pkhash) ==
    (SumSquares(pkhash[1]) + SumSquares(pkhash[2])
        + SumSquares(pkhash[3]) + SumSquares(pkhash[4])) % PktSize
\* a table no entry of which has been stored
EmptyPawnKingTable ==
    [ i \in 0..(PktSize - 1) |-> [ pkhash |-> << >>, passed |-> {}, eval |-> 0 ] ]
\* a pointer to an entry is the index of its slot
getPawnKingEntry(pktable, pkhash) ==
    IF pktable[PktIndex(pkhash)].pkhash = pkhash THEN PktIndex(pkhash) ELSE NULL
storePawnKingEntry(pktable, pkhash, passed, eval) ==
    [pktable EXCEPT ![PktIndex(pkhash)] =
        [ pkhash |-> pkhash, passed |-> passed, eval |-> eval ]]

(***************************************************************************)
(* The trace structure T: a bag of the counters that were incremented.     *)
(* `if (TRACE) T.x[i][US] += n' is Bump(T, <<"x", i, US>>, n)              *)
(***************************************************************************)
EmptyTrace == EmptyBag
\* a counter update as it would be without its `if (TRACE)'
BumpUnguarded(T, key, n) ==
    IF n > 0 THEN T (+) [k \in {key} |-> n] ELSE T
\* a counter update as it would be with `++' where the code has `+= n'
BumpByOne(T, key, n) ==
    IF TRACE = 1 /\ n > 0 THEN T (+) [k \in {key} |-> 1] ELSE T
Bump(T, key, n) ==
    IF TRACE = 1 /\ n > 0 THEN T (+) [k \in {key} |-> n] ELSE T
Bool(p) == IF p THEN 1 ELSE 0

(***************************************************************************)
(* initializeEvalInfo: writes the fields of *ei it names and no other      *)
(***************************************************************************)
initializeEvalInfo(ei, board, pktable) ==
    LET white == board.colours[WHITE]
        black == board.colours[BLACK]
        pawns == board.pieces[PAWN]
        bishops == board.pieces[BISHOP]
        rooks == board.pieces[ROOK]
        queens == board.pieces[QUEEN]
        kings == board.pieces[KING]
        whitePawns == white \cap pawns
        blackPawns == black \cap pawns
        wKingSq == getlsb(white \cap kings)
        bKingSq == getlsb(black \cap kings)
        pawnAtt == [c \in Colours |->
                       IF c = WHITE THEN pawnAttackSpan(whitePawns, Full, WHITE)
                                    ELSE pawnAttackSpan(blackPawns, Full, BLACK)]
        blocked == [c \in Colours |->
                       IF c = WHITE
                       THEN pawnAdvance(white \cup black, Full \ whitePawns, BLACK)
                       ELSE pawnAdvance(white \cup black, Full \ blackPawns, WHITE)]
        occ == white \cup black
        Xor(a, b) == (a \ b) \cup (b \ a)
        pkentry == IF pktable = NULL_TABLE THEN NULL
                   ELSE getPawnKingEntry(pktable, board.pkhash)
    IN  [ei EXCEPT
          !.kingSquare = [c \in Colours |-> IF c = WHITE THEN wKingSq ELSE bKingSq],
          !.pawnAttacks = pawnAtt,
          !.rammedPawns = [c \in Colours |->
                              IF c = WHITE
                              THEN pawnAdvance(blackPawns, Full \ whitePawns, BLACK)
                              ELSE pawnAdvance(whitePawns, Full \ blackPawns, WHITE)],
          !.blockedPawns = blocked,
          !.kingAreas = [c \in Colours |->
                            IF c = WHITE THEN kingAreaMasks(WHITE, wKingSq)
                                         ELSE kingAreaMasks(BLACK, bKingSq)],
          !.mobilityAreas = [c \in Colours |->
                                IF c = WHITE
                                THEN Full \ (pawnAtt[BLACK] \cup (white \cap kings)
                                                \cup blocked[WHITE])
                                ELSE Full \ (pawnAtt[WHITE] \cup (black \cap kings)
                                                \cup blocked[BLACK])],
          !.attacked = [c \in Colours |->
                           IF c = WHITE THEN kingAttacks(wKingSq) ELSE kingAttacks(bKingSq)],
          !.attackedBy[WHITE][KING] = kingAttacks(wKingSq),
          !.attackedBy[BLACK][KING] = kingAttacks(bKingSq),
          !.occupiedMinusBishops = [c \in Colours |->
                                       Xor(occ, board.colours[c] \cap (bishops \cup queens))],
          !.occupiedMinusRooks = [c \in Colours |->
                                     Xor(occ, board.colours[c] \cap (rooks \cup queens))],
          !.kingAttacksCount = [c \in Colours |-> 0],
          !.kingAttackersCount = [c \in Colours |-> 0],
          !.kingAttackersWeight = [c \in Colours |-> 0],
          !.pkentry = pkentry,
          !.passedPawns = IF pkentry = NULL THEN {} ELSE pktable[pkentry].passed,
          !.pkeval = [c \in Colours |->
                         IF c = WHITE
                         THEN (IF pkentry = NULL THEN 0 ELSE pktable[pkentry].eval)
                         ELSE 0]]

(***************************************************************************)
(* The evaluators.  Each takes the memory it is handed, st = [ei, board,   *)
(* T], and returns it as it leaves it, with its return value in eval.      *)
(***************************************************************************)
\* the bookkeeping as it would be without the `if (attacks)' of lines 452, 523,
\* 583 and 626: every piece counts as an attacker of the king
UpdateKingSafetyAlways(ei, US, attacks, kind) ==
    LET hits == attacks \cap ei.kingAreas[Not(US)]
    IN  [ei EXCEPT !.kingAttacksCount[US] = @ + popcount(hits),
                   !.kingAttackersCount[US] = @ + 1,
                   !.kingAttackersWeight[US] = @ + KSAttackWeight[kind + 1]]
\* the king-safety bookkeeping that ends every piece's loop iteration
UpdateKingSafety(ei, US, attacks, kind) ==
    LET hits == attacks \cap ei.kingAreas[Not(US)]
    IN  IF hits # {}
        THEN [ei EXCEPT !.kingAttacksCount[US] = @ + popcount(hits),
                        !.kingAttackersCount[US] = @ + 1,
                        !.kingAttackersWeight[US] = @ + KSAttackWeight[kind + 1]]
        ELSE ei
\* the three updates as they would be with `attacked |= attacks' ahead of the update
\* of attackedBy2: every square the piece attacks counts as attacked twice
StoreAttacksAttackedFirst(ei, US, attacks, kind) ==
    [ei EXCEPT !.attackedBy2[US] = @ \cup (attacks \cap (ei.attacked[US] \cup attacks)),
               !.attacked[US] = @ \cup attacks,
               !.attackedBy[US][kind] = @ \cup attacks]
\* attackedBy2, attacked and attackedBy of one piece's attacks, in the code's order
StoreAttacks(ei, US, attacks, kind) ==
    [ei EXCEPT !.attackedBy2[US] = @ \cup (attacks \cap ei.attacked[US]),
               !.attacked[US] = @ \cup attacks,
               !.attackedBy[US][kind] = @ \cup attacks]

\* the iteration as it would be with `if' for the `else if' of line 366: a passed
\* pawn is taken for a candidate as well
evaluatePawnsBodyIfCandidate(st, sq, tempPawns, colour) ==
    LET US == colour
        THEM == Not(colour)
        fwd == Forward(colour)
        ei == st.ei
        pawns == st.board.pieces[PAWN]
        myPawns == pawns \cap st.board.colours[US]
        enemyPawns == pawns \cap st.board.colours[THEM]
        stoppers == enemyPawns \cap passedPawnMasks(US, sq)
        threats == enemyPawns \cap pawnAttacks(US, sq)
        support == myPawns \cap pawnAttacks(THEM, sq)
        pushThreats == enemyPawns \cap pawnAttacks(US, sq + fwd)
        pushSupport == myPawns \cap pawnAttacks(THEM, sq + fwd)
        Xor(a, b) == (a \ b) \cup (b \ a)
        leftovers == Xor(Xor(stoppers, threats), pushThreats)
        rel == relativeRankOf(US, sq)
        r32 == relativeSquare32(sq, US)
        passed == stoppers = {}
        candidate == leftovers = {}
                        /\ popcount(pushSupport) >= popcount(pushThreats)
        cflag == Bool(popcount(support) >= popcount(threats))
        isolated == adjacentFilesMasks(fileOf(sq)) \cap myPawns = {}
        stacked == Files[fileOf(sq)] \cap tempPawns # {}
        backward == /\ passedPawnMasks(THEM, sq) \cap myPawns = {}
                    /\ testBit(ei.pawnAttacks[THEM], sq + fwd)
        bflag == Bool(Files[fileOf(sq)] \cap enemyPawns = {})
        connected == ~backward /\ pawnConnectedMasks(US, sq) \cap myPawns # {}
        T0 == Bump(Bump(st.T, <<"PawnValue", US>>, 1), <<"PawnPSQT32", r32, US>>, 1)
        T1 == Bump(T0, <<"PawnCandidatePasser", cflag, rel, US>>, Bool(candidate))
        T2 == Bump(T1, <<"PawnIsolated", US>>, Bool(isolated))
        T3 == Bump(T2, <<"PawnStacked", US>>, Bool(stacked))
        T4 == Bump(T3, <<"PawnBackwards", bflag, US>>, Bool(backward))
        T5 == Bump(T4, <<"PawnConnected32", r32, US>>, Bool(connected))
    IN  [st EXCEPT
          !.ei.passedPawns = IF passed THEN @ \cup {sq} ELSE @,
          !.pkeval = @ + (IF candidate THEN PawnCandidatePasser[cflag + 1][rel + 1] ELSE 0)
                       + (IF isolated THEN PawnIsolated ELSE 0)
                       + (IF stacked THEN PawnStacked ELSE 0)
                       + (IF backward THEN PawnBackwards[bflag + 1] ELSE 0)
                       + (IF connected THEN PawnConnected32[r32 + 1] ELSE 0),
          !.T = T5]
\* one iteration of the pawn loop: sq was popped, tempPawns is what is left
evaluatePawnsBody(st, sq, tempPawns, colour) ==
    LET US == colour
        THEM == Not(colour)
        fwd == Forward(colour)
        ei == st.ei
        pawns == st.board.pieces[PAWN]
        myPawns == pawns \cap st.board.colours[US]
        enemyPawns == pawns \cap st.board.colours[THEM]
        stoppers == enemyPawns \cap passedPawnMasks(US, sq)
        threats == enemyPawns \cap pawnAttacks(US, sq)
        support == myPawns \cap pawnAttacks(THEM, sq)
        pushThreats == enemyPawns \cap pawnAttacks(US, sq + fwd)
        pushSupport == myPawns \cap pawnAttacks(THEM, sq + fwd)
        Xor(a, b) == (a \ b) \cup (b \ a)
        leftovers == Xor(Xor(stoppers, threats), pushThreats)
        rel == relativeRankOf(US, sq)
        r32 == relativeSquare32(sq, US)
        passed == stoppers = {}
        candidate == ~passed /\ leftovers = {}
                        /\ popcount(pushSupport) >= popcount(pushThreats)
        cflag == Bool(popcount(support) >= popcount(threats))
        isolated == adjacentFilesMasks(fileOf(sq)) \cap myPawns = {}
        stacked == Files[fileOf(sq)] \cap tempPawns # {}
        backward == /\ passedPawnMasks(THEM, sq) \cap myPawns = {}
                    /\ testBit(ei.pawnAttacks[THEM], sq + fwd)
        bflag == Bool(Files[fileOf(sq)] \cap enemyPawns = {})
        connected == ~backward /\ pawnConnectedMasks(US, sq) \cap myPawns # {}
        T0 == Bump(Bump(st.T, <<"PawnValue", US>>, 1), <<"PawnPSQT32", r32, US>>, 1)
        T1 == Bump(T0, <<"PawnCandidatePasser", cflag, rel, US>>, Bool(candidate))
        T2 == Bump(T1, <<"PawnIsolated", US>>, Bool(isolated))
        T3 == Bump(T2, <<"PawnStacked", US>>, Bool(stacked))
        T4 == Bump(T3, <<"PawnBackwards", bflag, US>>, Bool(backward))
        T5 == Bump(T4, <<"PawnConnected32", r32, US>>, Bool(connected))
    IN  [st EXCEPT
          !.ei.passedPawns = IF passed THEN @ \cup {sq} ELSE @,
          !.pkeval = @ + (IF candidate THEN PawnCandidatePasser[cflag + 1][rel + 1] ELSE 0)
                       + (IF isolated THEN PawnIsolated ELSE 0)
                       + (IF stacked THEN PawnStacked ELSE 0)
                       + (IF backward THEN PawnBackwards[bflag + 1] ELSE 0)
                       + (IF connected THEN PawnConnected32[r32 + 1] ELSE 0),
          !.T = T5]
\* the pawn loop as it would be if the stacked test of line 378 saw the pawns
\* before line 347 popped sq from them
RECURSIVE evaluatePawnsLoopBeforePop(_, _, _)
evaluatePawnsLoopBeforePop(st, tempPawns, colour) ==
    IF tempPawns = {} THEN st
    ELSE LET sq == getlsb(tempPawns)
         IN  evaluatePawnsLoopBeforePop(evaluatePawnsBody(st, sq, tempPawns, colour),
                                        tempPawns \ {sq}, colour)
RECURSIVE evaluatePawnsLoop(_, _, _)
evaluatePawnsLoop(st, tempPawns, colour) ==
    IF tempPawns = {} THEN st
    ELSE LET sq == getlsb(tempPawns)
         IN  evaluatePawnsLoop(evaluatePawnsBody(st, sq, tempPawns \ {sq}, colour),
                               tempPawns \ {sq}, colour)
\* evaluatePawns as it would be without the early return of line 340: the pawns are
\* evaluated again on a pawn-king hit and line 399 overwrites the restored pkeval
evaluatePawnsNoEarlyReturn(st, colour) ==
    LET US == colour
        THEM == Not(colour)
        ei0 == st.ei
        ei1 == [ei0 EXCEPT !.attackedBy2[US] = ei0.pawnAttacks[US] \cap ei0.attacked[US],
                           !.attacked[US] = @ \cup ei0.pawnAttacks[US],
                           !.attackedBy[US][PAWN] = ei0.pawnAttacks[US],
                           !.kingAttacksCount[US] =
                               @ + popcount(ei0.pawnAttacks[US] \cap ei0.kingAreas[THEM])]
        myPawns == st.board.pieces[PAWN] \cap st.board.colours[US]
        out == evaluatePawnsLoop([ ei |-> ei1, board |-> st.board, T |-> st.T,
                                   pkeval |-> 0 ], myPawns, colour)
    IN  [ ei |-> [out.ei EXCEPT !.pkeval[US] = out.pkeval],
          board |-> out.board, T |-> out.T, eval |-> 0 ]
\* evaluatePawns as it would be with `|=' for the `=' of line 331: attackedBy2 keeps
\* what the memory held before the call
evaluatePawnsOrAttackedBy2(st, colour) ==
    LET US == colour
        THEM == Not(colour)
        ei0 == st.ei
        ei1 == [ei0 EXCEPT !.attackedBy2[US] =
                               @ \cup (ei0.pawnAttacks[US] \cap ei0.attacked[US]),
                           !.attacked[US] = @ \cup ei0.pawnAttacks[US],
                           !.attackedBy[US][PAWN] = ei0.pawnAttacks[US],
                           !.kingAttacksCount[US] =
                               @ + popcount(ei0.pawnAttacks[US] \cap ei0.kingAreas[THEM])]
        myPawns == st.board.pieces[PAWN] \cap st.board.colours[US]
        out == evaluatePawnsLoop([ ei |-> ei1, board |-> st.board, T |-> st.T,
                                   pkeval |-> 0 ], myPawns, colour)
    IN  IF ei1.pkentry # NULL
        THEN [ ei |-> ei1, board |-> st.board, T |-> st.T, eval |-> 0 ]
        ELSE [ ei |-> [out.ei EXCEPT !.pkeval[US] = out.pkeval],
               board |-> out.board, T |-> out.T, eval |-> 0 ]
evaluatePawns(st, colour) ==
    LET US == colour
        THEM == Not(colour)
        ei0 == st.ei
        ei1 == [ei0 EXCEPT !.attackedBy2[US] = ei0.pawnAttacks[US] \cap ei0.attacked[US],
                           !.attacked[US] = @ \cup ei0.pawnAttacks[US],
                           !.attackedBy[US][PAWN] = ei0.pawnAttacks[US],
                           !.kingAttacksCount[US] =
                               @ + popcount(ei0.pawnAttacks[US] \cap ei0.kingAreas[THEM])]
        myPawns == st.board.pieces[PAWN] \cap st.board.colours[US]
        out == evaluatePawnsLoop([ ei |-> ei1, board |-> st.board, T |-> st.T,
                                   pkeval |-> 0 ], myPawns, colour)
    IN  IF ei1.pkentry # NULL
        THEN [ ei |-> ei1, board |-> st.board, T |-> st.T, eval |-> 0 ]
        ELSE [ ei |-> [out.ei EXCEPT !.pkeval[US] = out.pkeval],
               board |-> out.board, T |-> out.T, eval |-> 0 ]

evaluateKnightsBody(st, sq, colour) ==
    LET US == colour
        THEM == Not(colour)
        ei == st.ei
        enemyPawns == st.board.pieces[PAWN] \cap st.board.colours[THEM]
        attacks == knightAttacks(sq)
        outpost == /\ testBit(outpostRanksMasks(US), sq)
                   /\ outpostSquareMasks(US, sq) \cap enemyPawns = {}
        defended == Bool(testBit(ei.pawnAttacks[US], sq))
        behind == testBit(pawnAdvance(st.board.pieces[PAWN], {}, THEM), sq)
        count == popcount(ei.mobilityAreas[US] \cap attacks)
        T0 == Bump(Bump(st.T, <<"KnightValue", US>>, 1),
                   <<"KnightPSQT32", relativeSquare32(sq, US), US>>, 1)
        T1 == Bump(T0, <<"KnightOutpost", defended, US>>, Bool(outpost))
        T2 == Bump(T1, <<"KnightBehindPawn", US>>, Bool(behind))
        T3 == Bump(T2, <<"KnightMobility", count, US>>, 1)
    IN  [st EXCEPT
          !.ei = UpdateKingSafety(StoreAttacks(ei, US, attacks, KNIGHT), US, attacks, KNIGHT),
          !.eval = @ + (IF outpost THEN KnightOutpost[defended + 1] ELSE 0)
                     + (IF behind THEN KnightBehindPawn ELSE 0)
                     + KnightMobility[count + 1],
          !.T = T3]
RECURSIVE evaluateKnightsLoop(_, _, _)
evaluateKnightsLoop(st, tempKnights, colour) ==
    IF tempKnights = {} THEN st
    ELSE LET sq == getlsb(tempKnights)
         IN  evaluateKnightsLoop(evaluateKnightsBody(st, sq, colour),
                                 tempKnights \ {sq}, colour)
\* evaluateKnights as it would be if poplsb worked on the board's own bitboard instead
\* of the copy tempKnights: the knights it visits leave board->pieces[KNIGHT]
evaluateKnightsPoppingBoard(st, colour) ==
    LET r == evaluateKnightsLoop(
                 [ ei |-> [st.ei EXCEPT !.attackedBy[colour][KNIGHT] = {}],
                   board |-> st.board, T |-> st.T, eval |-> 0 ],
                 st.board.pieces[KNIGHT] \cap st.board.colours[colour], colour)
    IN  [r EXCEPT !.board.pieces[KNIGHT] = @ \ st.board.colours[colour]]
evaluateKnights(st, colour) ==
    evaluateKnightsLoop(
        [ ei |-> [st.ei EXCEPT !.attackedBy[colour][KNIGHT] = {}],
          board |-> st.board, T |-> st.T, eval |-> 0 ],
        st.board.pieces[KNIGHT] \cap st.board.colours[colour], colour)

evaluateBishopsBody(st, sq, colour) ==
    LET US == colour
        THEM == Not(colour)
        ei == st.ei
        myPawns == st.board.pieces[PAWN] \cap st.board.colours[US]
        enemyPawns == st.board.pieces[PAWN] \cap st.board.colours[THEM]
        attacks == bishopAttacks(sq, ei.occupiedMinusBishops[US])
        rammed == popcount(ei.rammedPawns[US] \cap
                     (IF testBit(WHITE_SQUARES, sq) THEN WHITE_SQUARES ELSE BLACK_SQUARES))
        outpost == /\ testBit(outpostRanksMasks(US), sq)
                   /\ outpostSquareMasks(US, sq) \cap enemyPawns = {}
        defended == Bool(testBit(ei.pawnAttacks[US], sq))
        behind == testBit(pawnAdvance(myPawns \cup enemyPawns, {}, THEM), sq)
        count == popcount(ei.mobilityAreas[US] \cap attacks)
        T0 == Bump(Bump(st.T, <<"BishopValue", US>>, 1),
                   <<"BishopPSQT32", relativeSquare32(sq, US), US>>, 1)
        T1 == Bump(T0, <<"BishopRammedPawns", US>>, rammed)
        T2 == Bump(T1, <<"BishopOutpost", defended, US>>, Bool(outpost))
        T3 == Bump(T2, <<"BishopBehindPawn", US>>, Bool(behind))
        T4 == Bump(T3, <<"BishopMobility", count, US>>, 1)
    IN  [st EXCEPT
          !.ei = UpdateKingSafety(StoreAttacks(ei, US, attacks, BISHOP), US, attacks, BISHOP),
          !.eval = @ + rammed * BishopRammedPawns
                     + (IF outpost THEN BishopOutpost[defended + 1] ELSE 0)
                     + (IF behind THEN BishopBehindPawn ELSE 0)
                     + BishopMobility[count + 1],
          !.T = T4]
RECURSIVE evaluateBishopsLoop(_, _, _)
evaluateBishopsLoop(st, tempBishops, colour) ==
    IF tempBishops = {} THEN st
    ELSE LET sq == getlsb(tempBishops)
         IN  evaluateBishopsLoop(evaluateBishopsBody(st, sq, colour),
                                 tempBishops \ {sq}, colour)
evaluateBishops(st, colour) ==
    LET tempBishops == st.board.pieces[BISHOP] \cap st.board.colours[colour]
        pair == tempBishops \cap WHITE_SQUARES # {} /\ tempBishops \cap BLACK_SQUARES # {}
    IN  evaluateBishopsLoop(
            [ ei |-> [st.ei EXCEPT !.attackedBy[colour][BISHOP] = {}],
              board |-> st.board,
              T |-> Bump(st.T, <<"BishopPair", colour>>, Bool(pair)),
              eval |-> IF pair THEN BishopPair ELSE 0 ],
            tempBishops, colour)

\* the iteration as it would be if the bonus for the seventh rank did not ask where
\* the enemy king stands
evaluateRooksBodyAnyKing(st, sq, colour) ==
    LET US == colour
        ei == st.ei
        myPawns == st.board.pieces[PAWN] \cap st.board.colours[US]
        enemyPawns == st.board.pieces[PAWN] \cap st.board.colours[Not(US)]
        attacks == rookAttacks(sq, ei.occupiedMinusRooks[US])
        semi == myPawns \cap Files[fileOf(sq)] = {}
        open == Bool(enemyPawns \cap Files[fileOf(sq)] = {})
        count == popcount(ei.mobilityAreas[US] \cap attacks)
    IN  [st EXCEPT
          !.ei = UpdateKingSafety(StoreAttacks(ei, US, attacks, ROOK), US, attacks, ROOK),
          !.eval = @ + (IF semi THEN RookFile[open + 1] ELSE 0)
                     + (IF relativeRankOf(US, sq) = 6 THEN RookOnSeventh ELSE 0)
                     + RookMobility[count + 1]]
evaluateRooksBody(st, sq, colour) ==
    LET US == colour
        THEM == Not(colour)
        ei == st.ei
        myPawns == st.board.pieces[PAWN] \cap st.board.colours[US]
        enemyPawns == st.board.pieces[PAWN] \cap st.board.colours[THEM]
        attacks == rookAttacks(sq, ei.occupiedMinusRooks[US])
        semi == myPawns \cap Files[fileOf(sq)] = {}
        open == Bool(enemyPawns \cap Files[fileOf(sq)] = {})
        seventh == /\ relativeRankOf(US, sq) = 6
                   /\ relativeRankOf(US, ei.kingSquare[THEM]) >= 6
        count == popcount(ei.mobilityAreas[US] \cap attacks)
        T0 == Bump(Bump(st.T, <<"RookValue", US>>, 1),
                   <<"RookPSQT32", relativeSquare32(sq, US), US>>, 1)
        T1 == Bump(T0, <<"RookFile", open, US>>, Bool(semi))
        T2 == Bump(T1, <<"RookOnSeventh", US>>, Bool(seventh))
        T3 == Bump(T2, <<"RookMobility", count, US>>, 1)
    IN  [st EXCEPT
          !.ei = UpdateKingSafety(StoreAttacks(ei, US, attacks, ROOK), US, attacks, ROOK),
          !.eval = @ + (IF semi THEN RookFile[open + 1] ELSE 0)
                     + (IF seventh THEN RookOnSeventh ELSE 0)
                     + RookMobility[count + 1],
          !.T = T3]
RECURSIVE evaluateRooksLoop(_, _, _)
evaluateRooksLoop(st, tempRooks, colour) ==
    IF tempRooks = {} THEN st
    ELSE LET sq == getlsb(tempRooks)
         IN  evaluateRooksLoop(evaluateRooksBody(st, sq, colour), tempRooks \ {sq}, colour)
evaluateRooks(st, colour) ==
    evaluateRooksLoop(
        [ ei |-> [st.ei EXCEPT !.attackedBy[colour][ROOK] = {}],
          board |-> st.board, T |-> st.T, eval |-> 0 ],
        st.board.pieces[ROOK] \cap st.board.colours[colour], colour)

evaluateQueensBody(st, sq, colour) ==
    LET US == colour
        ei == st.ei
        attacks == rookAttacks(sq, ei.occupiedMinusRooks[US])
                      \cup bishopAttacks(sq, ei.occupiedMinusBishops[US])
        count == popcount(ei.mobilityAreas[US] \cap attacks)
        T0 == Bump(Bump(st.T, <<"QueenValue", US>>, 1),
                   <<"QueenPSQT32", relativeSquare32(sq, US), US>>, 1)
        T1 == Bump(T0, <<"QueenMobility", count, US>>, 1)
    IN  [st EXCEPT
          !.ei = UpdateKingSafety(StoreAttacks(ei, US, attacks, QUEEN), US, attacks, QUEEN),
          !.eval = @ + QueenMobility[count + 1],
          !.T = T1]
RECURSIVE evaluateQueensLoop(_, _, _)
evaluateQueensLoop(st, tempQueens, colour) ==
    IF tempQueens = {} THEN st
    ELSE LET sq == getlsb(tempQueens)
         IN  evaluateQueensLoop(evaluateQueensBody(st, sq, colour), tempQueens \ {sq}, colour)
\* evaluateQueens as it would be without `ei->attackedBy[US][QUEEN] = 0ull'
evaluateQueensNoReset(st, colour) ==
    evaluateQueensLoop(
        [ ei |-> st.ei, board |-> st.board, T |-> st.T, eval |-> 0 ],
        st.board.pieces[QUEEN] \cap st.board.colours[colour], colour)
evaluateQueens(st, colour) ==
    evaluateQueensLoop(
        [ ei |-> [st.ei EXCEPT !.attackedBy[colour][QUEEN] = {}],
          board |-> st.board, T |-> st.T, eval |-> 0 ],
        st.board.pieces[QUEEN] \cap st.board.colours[colour], colour)

\* the danger number of evaluateKings.  scaledAttackCounts is the float
\* 9.0 * kingAttacksCount[THEM] / popcount(kingAreas[US]); a king area has 4, 6 or 9
\* squares, so that quotient, its product with KSAttackValue and the float sum are
\* exact, and the conversion back to int truncates the exact value toward zero
KingDanger(ei, board, US) ==
    LET THEM == Not(US)
        myPawns == board.pieces[PAWN] \cap board.colours[US]
        enemyQueens == board.pieces[QUEEN] \cap board.colours[THEM]
        kingSq == ei.kingSquare[US]
        weak == (ei.attacked[THEM] \ ei.attackedBy2[US])
                   \cap ((Full \ ei.attacked[US]) \cup ei.attackedBy[US][QUEEN]
                            \cup ei.attackedBy[US][KING])
        area == popcount(ei.kingAreas[US])
        safe == (Full \ board.colours[THEM])
                   \cap ((Full \ ei.attacked[US]) \cup (weak \cap ei.attackedBy2[THEM]))
        occupied == board.colours[WHITE] \cup board.colours[BLACK]
        knightThreats == knightAttacks(kingSq)
        bishopThreats == bishopAttacks(kingSq, occupied)
        rookThreats == rookAttacks(kingSq, occupied)
        queenThreats == bishopThreats \cup rookThreats
        knightChecks == knightThreats \cap safe \cap ei.attackedBy[THEM][KNIGHT]
        bishopChecks == bishopThreats \cap safe \cap ei.attackedBy[THEM][BISHOP]
        rookChecks == rookThreats \cap safe \cap ei.attackedBy[THEM][ROOK]
        queenChecks == queenThreats \cap safe \cap ei.attackedBy[THEM][QUEEN]
        count0 == ei.kingAttackersCount[THEM] * ei.kingAttackersWeight[THEM]
        ints == KSWeakSquares * popcount(weak \cap ei.kingAreas[US])
              + KSFriendlyPawns * popcount((myPawns \cap ei.kingAreas[US]) \ weak)
              + KSNoEnemyQueens * Bool(enemyQueens = {})
              + KSSafeQueenCheck * popcount(queenChecks)
              + KSSafeRookCheck * popcount(rookChecks)
              + KSSafeBishopCheck * popcount(bishopChecks)
              + KSSafeKnightCheck * popcount(knightChecks)
              + KSAdjustment
    IN  CDiv((count0 + ints) * area + KSAttackValue * 9 * ei.kingAttacksCount[THEM], area)
\* whether evaluateKings enters the king-safety block for the king of US
KingSafetyRuns(ei, board, US) ==
    ei.kingAttackersCount[Not(US)]
        > 1 - popcount(board.pieces[QUEEN] \cap board.colours[Not(US)])
\* the iteration as it would be if any piece of the king's side, not only a pawn,
\* sheltered the king
evaluateKingsFileAnyDefender(st, file, colour) ==
    LET US == colour
        THEM == Not(colour)
        enemyPawns == st.board.pieces[PAWN] \cap st.board.colours[THEM]
        kingSq == st.ei.kingSquare[US]
        kingRank == rankOf(kingSq)
        ours == (st.board.colours[US] \ {kingSq}) \cap Files[file]
                   \cap forwardRanksMasks(US, kingRank)
        ourDist == IF ours = {} THEN 7 ELSE Abs(kingRank - rankOf(backmost(US, ours)))
        theirs == enemyPawns \cap Files[file] \cap forwardRanksMasks(US, kingRank)
        theirDist == IF theirs = {} THEN 7 ELSE Abs(kingRank - rankOf(backmost(US, theirs)))
        onFile == Bool(file = fileOf(kingSq))
        blocked == Bool(ourDist # 7 /\ ourDist = theirDist - 1)
    IN  [st EXCEPT
          !.ei.pkeval[US] = @ + KingShelter[onFile + 1][file + 1][ourDist + 1]
                              + KingStorm[blocked + 1][mirrorFile(file) + 1][theirDist + 1]]
\* the iteration as it would be without the storm term
evaluateKingsFileNoStorm(st, file, colour) ==
    LET US == colour
        myPawns == st.board.pieces[PAWN] \cap st.board.colours[US]
        kingSq == st.ei.kingSquare[US]
        kingRank == rankOf(kingSq)
        ours == myPawns \cap Files[file] \cap forwardRanksMasks(US, kingRank)
        ourDist == IF ours = {} THEN 7 ELSE Abs(kingRank - rankOf(backmost(US, ours)))
        onFile == Bool(file = fileOf(kingSq))
    IN  [st EXCEPT !.ei.pkeval[US] = @ + KingShelter[onFile + 1][file + 1][ourDist + 1]]
\* one iteration of the shelter and storm loop
evaluateKingsFile(st, file, colour) ==
    LET US == colour
        THEM == Not(colour)
        myPawns == st.board.pieces[PAWN] \cap st.board.colours[US]
        enemyPawns == st.board.pieces[PAWN] \cap st.board.colours[THEM]
        kingSq == st.ei.kingSquare[US]
        kingFile == fileOf(kingSq)
        kingRank == rankOf(kingSq)
        ours == myPawns \cap Files[file] \cap forwardRanksMasks(US, kingRank)
        ourDist == IF ours = {} THEN 7 ELSE Abs(kingRank - rankOf(backmost(US, ours)))
        theirs == enemyPawns \cap Files[file] \cap forwardRanksMasks(US, kingRank)
        theirDist == IF theirs = {} THEN 7 ELSE Abs(kingRank - rankOf(backmost(US, theirs)))
        onFile == Bool(file = kingFile)
        blocked == Bool(ourDist # 7 /\ ourDist = theirDist - 1)
    IN  [st EXCEPT
          !.ei.pkeval[US] = @ + KingShelter[onFile + 1][file + 1][ourDist + 1]
                              + KingStorm[blocked + 1][mirrorFile(file) + 1][theirDist + 1],
          !.T = Bump(Bump(@, <<"KingShelter", onFile, file, ourDist, US>>, 1),
                     <<"KingStorm", blocked, mirrorFile(file), theirDist, US>>, 1)]
\* the loop of line 717 as it would be with `<' for its `<=': the last file is
\* left out
RECURSIVE evaluateKingsLoopOpen(_, _, _, _)
evaluateKingsLoopOpen(st, file, last, colour) ==
    IF file >= last THEN st
    ELSE evaluateKingsLoopOpen(evaluateKingsFile(st, file, colour), file + 1, last, colour)
RECURSIVE evaluateKingsLoop(_, _, _, _)
evaluateKingsLoop(st, file, last, colour) ==
    IF file > last THEN st
    ELSE evaluateKingsLoop(evaluateKingsFile(st, file, colour), file + 1, last, colour)
\* evaluateKings as it would be without the test `count > 0' of line 708
evaluateKingsAlwaysPenalised(st, colour) ==
    LET US == colour
        ei == st.ei
        myDefenders == st.board.colours[US] \cap
                          (st.board.pieces[PAWN] \cup st.board.pieces[KNIGHT]
                              \cup st.board.pieces[BISHOP])
        kingFile == fileOf(ei.kingSquare[US])
        defenders == popcount(myDefenders \cap ei.kingAreas[US])
        count == KingDanger(ei, st.board, US)
        danger == IF KingSafetyRuns(ei, st.board, US)
                  THEN MakeScore(CDiv(count * count, 720), CDiv(count, 20))
                  ELSE 0
        st1 == [ ei |-> ei, board |-> st.board, T |-> st.T,
                 eval |-> KingDefenders[defenders + 1] - danger ]
    IN  IF ei.pkentry # NULL THEN st1
        ELSE evaluateKingsLoop(st1, MAX(0, kingFile - 1), MIN(FILE_NB - 1, kingFile + 1),
                               colour)
evaluateKings(st, colour) ==
    LET US == colour
        ei == st.ei
        myDefenders == st.board.colours[US] \cap
                          (st.board.pieces[PAWN] \cup st.board.pieces[KNIGHT]
                              \cup st.board.pieces[BISHOP])
        kingSq == ei.kingSquare[US]
        kingFile == fileOf(kingSq)
        defenders == popcount(myDefenders \cap ei.kingAreas[US])
        count == KingDanger(ei, st.board, US)
        danger == IF KingSafetyRuns(ei, st.board, US) /\ count > 0
                  THEN MakeScore(CDiv(count * count, 720), CDiv(count, 20))
                  ELSE 0
        T0 == Bump(Bump(st.T, <<"KingValue", US>>, 1),
                   <<"KingPSQT32", relativeSquare32(kingSq, US), US>>, 1)
        T1 == Bump(T0, <<"KingDefenders", defenders, US>>, 1)
        st1 == [ ei |-> ei, board |-> st.board, T |-> T1,
                 eval |-> KingDefenders[defenders + 1] - danger ]
    IN  IF ei.pkentry # NULL THEN st1
        ELSE evaluateKingsLoop(st1, MAX(0, kingFile - 1), MIN(FILE_NB - 1, kingFile + 1),
                               colour)

evaluatePassedPawnsBody(st, sq, colour) ==
    LET US == colour
        THEM == Not(colour)
        ei == st.ei
        occupied == st.board.colours[WHITE] \cup st.board.colours[BLACK]
        rank == relativeRankOf(US, sq)
        ahead == pawnAdvance({sq}, {}, US)
        canAdvance == Bool(ahead \cap occupied = {})
        safeAdvance == Bool(ahead \cap ei.attacked[THEM] = {})
        distUs == distanceBetween(sq, ei.kingSquare[US])
        distThem == distanceBetween(sq, ei.kingSquare[THEM])
        path == forwardRanksMasks(US, rankOf(sq)) \cap Files[fileOf(sq)]
        flag == Bool(path \cap ei.attacked[THEM] = {})
        T0 == Bump(st.T, <<"PassedPawn", canAdvance, safeAdvance, rank, US>>, 1)
        T1 == Bump(T0, <<"PassedFriendlyDistance", rank, US>>, distUs)
        T2 == Bump(T1, <<"PassedEnemyDistance", rank, US>>, distThem)
        T3 == Bump(T2, <<"PassedSafePromotionPath", US>>, flag)
    IN  [st EXCEPT
          !.eval = @ + PassedPawn[canAdvance + 1][safeAdvance + 1][rank + 1]
                     + distUs * PassedFriendlyDistance[rank + 1]
                     + distThem * PassedEnemyDistance[rank + 1]
                     + flag * PassedSafePromotionPath,
          !.T = T3]
RECURSIVE evaluatePassedPawnsLoop(_, _, _)
evaluatePassedPawnsLoop(st, tempPawns, colour) ==
    IF tempPawns = {} THEN st
    ELSE LET sq == getlsb(tempPawns)
         IN  evaluatePassedPawnsLoop(evaluatePassedPawnsBody(st, sq, colour),
                                     tempPawns \ {sq}, colour)
evaluatePassedPawns(st, colour) ==
    evaluatePassedPawnsLoop(
        [ ei |-> st.ei, board |-> st.board, T |-> st.T, eval |-> 0 ],
        st.board.colours[colour] \cap st.ei.passedPawns, colour)

evaluateThreats(st, colour) ==
    LET US == colour
        THEM == Not(colour)
        ei == st.ei
        Rank3Rel == IF US = WHITE THEN RANK_3 ELSE RANK_6
        friendly == st.board.colours[US]
        enemy == st.board.colours[THEM]
        occupied == friendly \cup enemy
        pawns == friendly \cap st.board.pieces[PAWN]
        knights == friendly \cap st.board.pieces[KNIGHT]
        bishops == friendly \cap st.board.pieces[BISHOP]
        rooks == friendly \cap st.board.pieces[ROOK]
        queens == friendly \cap st.board.pieces[QUEEN]
        attacksByPawns == ei.attackedBy[THEM][PAWN]
        attacksByMinors == ei.attackedBy[THEM][KNIGHT] \cup ei.attackedBy[THEM][BISHOP]
        attacksByMajors == ei.attackedBy[THEM][ROOK] \cup ei.attackedBy[THEM][QUEEN]
        poorlyDefended == (ei.attacked[THEM] \ ei.attacked[US])
                             \cup ((ei.attackedBy2[THEM] \ ei.attackedBy2[US])
                                      \ ei.attackedBy[US][PAWN])
        overloaded == ((((knights \cup bishops \cup rooks \cup queens)
                            \cap ei.attacked[US]) \ ei.attackedBy2[US])
                            \cap ei.attacked[THEM]) \ ei.attackedBy2[THEM]
        push1 == pawnAdvance(pawns, occupied, US)
        push2 == push1 \cup pawnAdvance((push1 \ attacksByPawns) \cap Rank3Rel, occupied, US)
        push3 == (push2 \ attacksByPawns)
                    \cap (ei.attacked[US] \cup (Full \ ei.attacked[THEM]))
        pushThreat == pawnAttackSpan(push3, enemy \ ei.attackedBy[US][PAWN], US)
        cWeakPawn == popcount((pawns \ attacksByPawns) \cap poorlyDefended)
        cMinorPawn == popcount((knights \cup bishops) \cap attacksByPawns)
        cMinorMinor == popcount((knights \cup bishops) \cap attacksByMinors)
        cMinorMajor == popcount((knights \cup bishops) \cap poorlyDefended
                                   \cap attacksByMajors)
        cRookLesser == popcount(rooks \cap (attacksByPawns \cup attacksByMinors))
        cQueen == popcount(queens \cap ei.attacked[THEM])
        cOverloaded == popcount(overloaded)
        cPush == popcount(pushThreat)
        T0 == Bump(st.T, <<"ThreatWeakPawn", US>>, cWeakPawn)
        T1 == Bump(T0, <<"ThreatMinorAttackedByPawn", US>>, cMinorPawn)
        T2 == Bump(T1, <<"ThreatMinorAttackedByMinor", US>>, cMinorMinor)
        T3 == Bump(T2, <<"ThreatMinorAttackedByMajor", US>>, cMinorMajor)
        T4 == Bump(T3, <<"ThreatRookAttackedByLesser", US>>, cRookLesser)
        T5 == Bump(T4, <<"ThreatQueenAttackedByOne", US>>, cQueen)
        T6 == Bump(T5, <<"ThreatOverloadedPieces", US>>, cOverloaded)
        T7 == Bump(T6, <<"ThreatByPawnPush", colour>>, cPush)
    IN  [ ei |-> ei, board |-> st.board, T |-> T7,
          eval |->   cWeakPawn * ThreatWeakPawn
                   + cMinorPawn * ThreatMinorAttackedByPawn
                   + cMinorMinor * ThreatMinorAttackedByMinor
                   + cMinorMajor * ThreatMinorAttackedByMajor
                   + cRookLesser * ThreatRookAttackedByLesser
                   + cQueen * ThreatQueenAttackedByOne
                   + cOverloaded * ThreatOverloadedPieces
                   + cPush * ThreatByPawnPush ]

\* evaluateScaleFactor as it would be without the test of line 878 that the two
\* bishops stand on squares of different colours
evaluateScaleFactorAnyBishops(board) ==
    LET white == board.colours[WHITE]
        black == board.colours[BLACK]
        knights == board.pieces[KNIGHT]
        bishops == board.pieces[BISHOP]
        rooks == board.pieces[ROOK]
        queens == board.pieces[QUEEN]
    IN  IF /\ onlyOne(white \cap bishops)
           /\ onlyOne(black \cap bishops)
        THEN IF knights \cup rooks \cup queens = {}
             THEN SCALE_OCB_BISHOPS_ONLY
             ELSE IF /\ rooks \cup queens = {}
                     /\ onlyOne(white \cap knights)
                     /\ onlyOne(black \cap knights)
             THEN SCALE_OCB_ONE_KNIGHT
             ELSE IF /\ knights \cup queens = {}
                     /\ onlyOne(white \cap rooks)
                     /\ onlyOne(black \cap rooks)
             THEN SCALE_OCB_ONE_ROOK
             ELSE SCALE_NORMAL
        ELSE SCALE_NORMAL
evaluateScaleFactor(board) ==
    LET white == board.colours[WHITE]
        black == board.colours[BLACK]
        knights == board.pieces[KNIGHT]
        bishops == board.pieces[BISHOP]
        rooks == board.pieces[ROOK]
        queens == board.pieces[QUEEN]
    IN  IF /\ onlyOne(white \cap bishops)
           /\ onlyOne(black \cap bishops)
           /\ onlyOne(bishops \cap WHITE_SQUARES)
        THEN IF knights \cup rooks \cup queens = {}
             THEN SCALE_OCB_BISHOPS_ONLY
             ELSE IF /\ rooks \cup queens = {}
                     /\ onlyOne(white \cap knights)
                     /\ onlyOne(black \cap knights)
             THEN SCALE_OCB_ONE_KNIGHT
             ELSE IF /\ knights \cup queens = {}
                     /\ onlyOne(white \cap rooks)
                     /\ onlyOne(black \cap rooks)
             THEN SCALE_OCB_ONE_ROOK
             ELSE SCALE_NORMAL
        ELSE SCALE_NORMAL

(***************************************************************************)
(* evaluatePieces and evaluateBoard                                        *)
(***************************************************************************)
\* the lines of evaluatePieces as they would be with the kings ahead of the queens
StagesKingsEarly ==
    << "pawns", "knights", "bishops", "rooks", "kings", "queens", "passed", "threats" >>
Stages == << "pawns", "knights", "bishops", "rooks", "queens", "kings", "passed", "threats" >>
\* the evaluator evaluatePieces calls at a stage, for one colour
Evaluator(stage, st, colour) ==
    CASE stage = "pawns" -> evaluatePawns(st, colour)
      [] stage = "knights" -> evaluateKnights(st, colour)
      [] stage = "bishops" -> evaluateBishops(st, colour)
      [] stage = "rooks" -> evaluateRooks(st, colour)
      [] stage = "queens" -> evaluateQueens(st, colour)
      [] stage = "kings" -> evaluateKings(st, colour)
      [] stage = "passed" -> evaluatePassedPawns(st, colour)
      [] stage = "threats" -> evaluateThreats(st, colour)
\* eval += evaluateX(ei, board, WHITE) - evaluateX(ei, board, BLACK), White's call first
RECURSIVE evaluatePiecesFrom(_, _)
evaluatePiecesFrom(st, i) ==
    IF i > Len(Stages) THEN st
    ELSE LET w == Evaluator(Stages[i], st, WHITE)
             b == Evaluator(Stages[i], w, BLACK)
         IN  evaluatePiecesFrom([b EXCEPT !.eval = st.eval + w.eval - b.eval], i + 1)
evaluatePieces(st) ==
    evaluatePiecesFrom([ ei |-> st.ei, board |-> st.board, T |-> st.T, eval |-> 0 ], 1)

\* the phase as it would be if the bishops were left out of line 273
GamePhaseKnightsOnly(board) ==
    24 - 4 * popcount(board.pieces[QUEEN])
       - 2 * popcount(board.pieces[ROOK])
       - 1 * popcount(board.pieces[KNIGHT])
\* the material phase of lines 270-273, before the remap
GamePhase(board) ==
    24 - 4 * popcount(board.pieces[QUEEN])
       - 2 * popcount(board.pieces[ROOK])
       - 1 * popcount(board.pieces[KNIGHT] \cup board.pieces[BISHOP])
RemapPhase(phase) == CDiv(phase * 256 + 12, 24)
\* the interpolated and scaled evaluation of lines 280-281
\* the blend as it would be with the scale factor applied to the whole sum
BlendScalingBoth(eval, phase, factor) ==
    CDiv(CDiv((ScoreMG(eval) * (256 - phase) + ScoreEG(eval) * phase) * factor,
              SCALE_NORMAL), 256)
Blend(eval, phase, factor) ==
    CDiv(ScoreMG(eval) * (256 - phase)
            + CDiv(ScoreEG(eval) * phase * factor, SCALE_NORMAL), 256)
\* the tail of evaluateBoard as it would be if line 285 stored White's half of the
\* pawn-king evaluation instead of the difference pkeval
evaluateBoardTailStoringWhite(st, pktable) ==
    LET board == st.board
        pkeval == st.ei.pkeval[WHITE] - st.ei.pkeval[BLACK]
        total == st.eval + pkeval + board.psqtmat + Tempo[board.turn + 1]
        raw == GamePhase(board)
        phase == RemapPhase(raw)
        factor == evaluateScaleFactor(board)
        eval == Blend(total, phase, factor)
        stored == st.ei.pkentry = NULL /\ pktable # NULL_TABLE
    IN  [ board |-> board, ei |-> st.ei, T |-> st.T,
          pktable |-> IF stored
                      THEN storePawnKingEntry(pktable, board.pkhash, st.ei.passedPawns,
                                              st.ei.pkeval[WHITE])
                      ELSE pktable,
          stored |-> stored, pieces |-> st.eval, pkeval |-> pkeval, total |-> total,
          rawPhase |-> raw, phase |-> phase, factor |-> factor, eval |-> eval,
          ret |-> IF board.turn = WHITE THEN eval ELSE -eval ]
\* evaluateBoard from line 266 on: st is the memory evaluatePieces left, st.eval its
\* return value, pktable the table the call was given (NULL_TABLE for none)
evaluateBoardTail(st, pktable) ==
    LET board == st.board
        pkeval == st.ei.pkeval[WHITE] - st.ei.pkeval[BLACK]
        total == st.eval + pkeval + board.psqtmat + Tempo[board.turn + 1]
        raw == GamePhase(board)
        phase == RemapPhase(raw)
        factor == evaluateScaleFactor(board)
        eval == Blend(total, phase, factor)
        stored == st.ei.pkentry = NULL /\ pktable # NULL_TABLE
    IN  [ board |-> board, ei |-> st.ei, T |-> st.T,
          pktable |-> IF stored
                      THEN storePawnKingEntry(pktable, board.pkhash, st.ei.passedPawns, pkeval)
                      ELSE pktable,
          stored |-> stored, pieces |-> st.eval, pkeval |-> pkeval, total |-> total,
          rawPhase |-> raw, phase |-> phase, factor |-> factor, eval |-> eval,
          ret |-> IF board.turn = WHITE THEN eval ELSE -eval ]
\* one whole call, from the EvalInfo memory ei it finds on its stack
evaluateBoard(board, pktable, ei, T) ==
    evaluateBoardTail(
        evaluatePieces([ ei |-> initializeEvalInfo(ei, board, pktable),
                         board |-> board, T |-> T ]),
        pktable)

(***************************************************************************)
(* The positions the evaluator is called on: legal positions in which      *)
(* neither king is in check, so that either side may be the one to move.   *)
(* Each is << White's, Black's >> pawns, knights, bishops, rooks, queens    *)
(* and king                                                                *)
(***************************************************************************)
Positions ==
    <<
      \* 1: a middlegame with doubled, passed and backward pawns, 2b2rk1/2qR1pp1/p2p1n1p/1p2P3/2PN4/2P4P/PB4P1/3Q2K1
      << << {8, 14, 18, 23, 26, 36}, {27}, {9}, {51}, {3}, {6} >>,
         << {33, 40, 43, 47, 53, 54}, {45}, {58}, {61}, {50}, {62} >> >>,
      \* 2: the same pawns and kings with rooks only, r5k1/5pp1/p2p3p/1p2P3/2P5/2P4P/P5P1/R5K1
      << << {8, 14, 18, 23, 26, 36}, {}, {}, {0}, {}, {6} >>,
         << {33, 40, 43, 47, 53, 54}, {}, {}, {56}, {}, {62} >> >>,
      \* 3: queen, rook and bishop bearing on the white king, 2k4r/ppp5/3b4/8/8/6Pq/PPP2P2/RN4K1
      << << {8, 9, 10, 13, 22}, {1}, {}, {0}, {}, {6} >>,
         << {48, 49, 50}, {}, {43}, {63}, {23}, {58} >> >>,
      \* 4: king and pawn against king, 4k3/8/8/8/8/8/4P3/4K3
      << << {12}, {}, {}, {}, {}, {4} >>,
         << {}, {}, {}, {}, {}, {60} >> >>,
      \* 5: the initial position, rnbqkbnr/pppppppp/8/8/8/8/PPPPPPPP/RNBQKBNR
      << << {8, 9, 10, 11, 12, 13, 14, 15}, {1, 6}, {2, 5}, {0, 7}, {3}, {4} >>,
         << {48, 49, 50, 51, 52, 53, 54, 55}, {57, 62}, {58, 61}, {56, 63}, {59}, {60} >> >>,
      \* 6: bare kings, 8/8/8/3k4/8/8/1K6/8
      << << {}, {}, {}, {}, {}, {9} >>,
         << {}, {}, {}, {}, {}, {35} >> >>,
      \* 7: opposite-coloured bishops and pawns, 8/5k2/4p3/8/2b5/4P3/3B4/4K3
      << << {20}, {}, {11}, {}, {}, {4} >>,
         << {44}, {}, {26}, {}, {}, {53} >> >>,
      \* 8: a passed pawn on e6, 4k3/8/4P3/8/4K3/8/8/8
      << << {44}, {}, {}, {}, {}, {28} >>,
         << {}, {}, {}, {}, {}, {60} >> >>,
      \* 9: seven queens after promotions, kqqq4/8/8/8/8/8/8/1QQQQ2K
      << << {}, {}, {}, {}, {1, 2, 3, 4}, {7} >>,
         << {}, {}, {}, {}, {57, 58, 59}, {56} >> >>,
      \* 10: opposite-coloured bishops with a rook each, 4r1k1/5pp1/2b4p/8/8/2P1B3/5PPP/4R1K1
      << << {13, 14, 15, 18}, {}, {20}, {4}, {}, {6} >>,
         << {47, 53, 54}, {}, {42}, {60}, {}, {62} >> >>,
      \* 11: opposite-coloured bishops with a knight each, 6k1/5pp1/2b2n1p/8/8/2P1BN2/5PPP/6K1
      << << {13, 14, 15, 18}, {21}, {20}, {}, {}, {6} >>,
         << {47, 53, 54}, {45}, {42}, {}, {}, {62} >> >>,
      \* 12: two bishops on squares of one colour, 8/8/4k3/8/2b5/8/4B3/4K3
      << << {}, {}, {12}, {}, {}, {4} >>,
         << {}, {}, {26}, {}, {}, {44} >> >>,
      \* 13: bare kings facing each other, 4k3/8/8/8/8/8/8/4K3
      << << {}, {}, {}, {}, {}, {4} >>,
         << {}, {}, {}, {}, {}, {60} >> >>,
      \* 14: rooks on their seventh and eighth ranks, 1Rb3k1/R7/8/8/8/6K1/r7/8
      << << {}, {}, {}, {48, 57}, {}, {22} >>,
         << {}, {}, {58}, {8}, {}, {62} >> >>,
      \* 15: two bishops bearing on the black king, no queens, 6k1/5ppp/8/8/2B5/3B4/5PPP/6K1
      << << {13, 14, 15}, {}, {19, 26}, {}, {}, {6} >>,
         << {53, 54, 55}, {}, {}, {}, {}, {62} >> >>,
      \* 16: two black queens, neither bearing on the white king, k7/8/q7/q7/8/8/8/7K
      << << {}, {}, {}, {}, {}, {7} >>,
         << {}, {}, {}, {}, {32, 40}, {56} >> >>,
      \* 17: tripled pawns on both sides, a pawn attacking the king area, 6k1/p6p/7p/P7/8/P6p/P5P1/6K1
      << << {8, 14, 16, 32}, {}, {}, {}, {}, {6} >>,
         << {23, 47, 48, 55}, {}, {}, {}, {}, {62} >> >>,
      \* 18: a passed pawn on a7 attacked by the king, 8/P7/1k6/8/8/8/8/7K
      << << {48}, {}, {}, {}, {}, {7} >>,
         << {}, {}, {}, {}, {}, {41} >> >>,
      \* 19: a passed pawn on a7 with nothing bearing on its file, 8/P7/8/8/8/k7/8/7K
      << << {48}, {}, {}, {}, {}, {7} >>,
         << {}, {}, {}, {}, {}, {16} >> >>,
      \* 20: a candidate passer on e4, a passed pawn on a2, 4k3/8/3p4/8/3PP3/8/P7/4K3
      << << {8, 27, 28}, {}, {}, {}, {}, {4} >>,
         << {43}, {}, {}, {}, {}, {60} >> >>
    >>
\* how many of the Positions a caller that calls again and again draws from
NumPositions == 3
\* calls of evaluateBoard such a caller makes, one after the other
MaxCalls == 2
BoardsOf(n) ==
    { MakeBoard(Positions[i][1], Positions[i][2], turn) :
        i \in 1..MIN(n, Len(Positions)), turn \in Colours }
Boards == BoardsOf(NumPositions)
\* how many of the Positions two concurrent callers draw from
NumParPositions == 2
ParBoards == BoardsOf(NumParPositions)
AllBoards == BoardsOf(Len(Positions))

(***************************************************************************)
(* Material for evaluateScaleFactor: kings on g1 and g8 and every choice   *)
(* of up to two bishops, knights and rooks, a queen and a pawn a side, on  *)
(* squares from which nothing attacks a king                               *)
(***************************************************************************)
ScaleBoards ==
    { MakeBoard(<< wp, wn, wb, wr, wq, {6} >>, << bp, bn, bb, br, bq, {62} >>, turn) :
        wp \in { {}, {10} }, bp \in { {}, {51} },
        wn \in { {}, {18}, {18, 19} }, bn \in { {}, {52}, {52, 33} },
        wb \in SUBSET {24, 9}, bb \in SUBSET {42, 43},
        wr \in { {}, {8}, {8, 12} }, br \in { {}, {48}, {48, 49} },
        wq \in { {}, {11} }, bq \in { {}, {50} },
        turn \in Colours }

(***************************************************************************)
(* What a call finds in the stack memory of its `EvalInfo ei': anything.   *)
(* Two fillings stand for it at the start; later calls find what the call  *)
(* before them left                                                        *)
(***************************************************************************)
Garbage(bb, n) ==
    [ kingSquare |-> [c \in Colours |-> n % SQUARE_NB],
      pawnAttacks |-> [c \in Colours |-> bb],
      rammedPawns |-> [c \in Colours |-> bb],
      blockedPawns |-> [c \in Colours |-> bb],
      kingAreas |-> [c \in Colours |-> bb],
      mobilityAreas |-> [c \in Colours |-> bb],
      attacked |-> [c \in Colours |-> bb],
      attackedBy2 |-> [c \in Colours |-> bb],
      attackedBy |-> [c \in Colours |-> [k \in Kinds |-> bb]],
      occupiedMinusBishops |-> [c \in Colours |-> bb],
      occupiedMinusRooks |-> [c \in Colours |-> bb],
      kingAttacksCount |-> [c \in Colours |-> n],
      kingAttackersCount |-> [c \in Colours |-> n],
      kingAttackersWeight |-> [c \in Colours |-> n],
      passedPawns |-> bb,
      pkeval |-> [c \in Colours |-> n],
      pkentry |-> NULL ]
Garbages == { Garbage({}, 0), Garbage(Full, 77) }

(***************************************************************************)
(* The state: the threads that call evaluateBoard, the memory they own     *)
(* and the one global, T                                                   *)
(***************************************************************************)
Threads == {1, 2}
\* the frame as it would be if ei were a static object, one for all calls
FrameShared(t) == 1
\* `EvalInfo ei;' is a local of evaluateBoard: every call has its own, on its
\* thread's stack
FrameOf(t) == t

VARIABLES
    board,      \* board[t]: the Board thread t passes to its call
    pktables,   \* pktables[t]: the pawn-king table thread t owns
    pktArg,     \* pktArg[t]: the pktable argument of the call, NULL or t's table
    frames,     \* frames[f]: the stack memory that holds an EvalInfo
    pc,         \* pc[t]: << stage, colours already evaluated at this stage >>
    acc,        \* acc[t]: the local eval of evaluatePieces
    out,        \* out[t]: what the last finished call computed and returned
    ncalls,     \* ncalls[t]: calls thread t has begun
    T           \* the global trace structure

vars == << board, pktables, pktArg, frames, pc, acc, out, ncalls, T, TRACE >>

NoOut ==
    [ stored |-> FALSE, pieces |-> 0, pkeval |-> 0, total |-> 0, rawPhase |-> 0,
      phase |-> 0, factor |-> 0, eval |-> 0, ret |-> 0 ]

\* the threads have called nothing yet and hold a board from the set bs, in a
\* build whose TRACE is one of traces
InitWith(bs, traces) ==
    /\ \E b \in bs : board = [t \in Threads |-> b]
    /\ pktables = [t \in Threads |-> EmptyPawnKingTable]
    /\ pktArg = [t \in Threads |-> NULL]
    /\ \E g \in Garbages : frames = [t \in Threads |-> g]
    /\ pc = [t \in Threads |-> << "idle", {} >>]
    /\ acc = [t \in Threads |-> 0]
    /\ out = [t \in Threads |-> NoOut]
    /\ ncalls = [t \in Threads |-> 0]
    /\ T = EmptyTrace
    /\ TRACE \in traces
Init == InitWith({ MakeBoard(Positions[1][1], Positions[1][2], WHITE) }, {0})

\* the table a call was given, or NULL
TableOf(t) == IF pktArg[t] = NULL THEN NULL_TABLE ELSE pktables[pktArg[t]]
\* the memory an evaluator of thread t works on
MemOf(t) == [ ei |-> frames[FrameOf(t)], board |-> board[t], T |-> T ]

\* thread t calls evaluateBoard(&b, pkt)
Call(t, b, pkt) ==
    /\ pc[t][1] \in {"idle", "done"}
    /\ ncalls[t] < MaxCalls
    /\ board' = [board EXCEPT ![t] = b]
    /\ pktArg' = [pktArg EXCEPT ![t] = pkt]
    /\ pc' = [pc EXCEPT ![t] = << "init", {} >>]
    /\ acc' = [acc EXCEPT ![t] = 0]
    /\ ncalls' = [ncalls EXCEPT ![t] = @ + 1]
    /\ UNCHANGED << pktables, frames, out, T, TRACE >>

\* line 264: initializeEvalInfo(&ei, board, pktable)
BuildContext(t) ==
    /\ pc[t][1] = "init"
    /\ frames' = [frames EXCEPT ![FrameOf(t)] =
                     initializeEvalInfo(frames[FrameOf(t)], board[t], TableOf(t))]
    /\ pc' = [pc EXCEPT ![t] = << Stages[1], {} >>]
    /\ UNCHANGED << board, pktables, pktArg, acc, out, ncalls, T, TRACE >>

\* one evaluator call of evaluatePieces.  The two calls of a line
\* `eval += f(ei, board, WHITE) - f(ei, board, BLACK)' are made in either order
Evaluate(t, colour) ==
    /\ pc[t][1] \in { Stages[i] : i \in 1..Len(Stages) }
    /\ colour \notin pc[t][2]
    /\ LET r == Evaluator(pc[t][1], MemOf(t), colour)
           i == CHOOSE j \in 1..Len(Stages) : Stages[j] = pc[t][1]
       IN  /\ frames' = [frames EXCEPT ![FrameOf(t)] = r.ei]
           /\ board' = [board EXCEPT ![t] = r.board]
           /\ T' = r.T
           /\ acc' = [acc EXCEPT ![t] = IF colour = WHITE THEN @ + r.eval ELSE @ - r.eval]
           /\ pc' = [pc EXCEPT ![t] =
                        IF pc[t][2] \cup {colour} # Colours
                        THEN << pc[t][1], pc[t][2] \cup {colour} >>
                        ELSE IF i < Len(Stages) THEN << Stages[i + 1], {} >>
                        ELSE << "tail", {} >>]
    /\ UNCHANGED << pktables, pktArg, out, ncalls, TRACE >>

\* lines 266-288: tempo, phase, scale factor, blend, pawn-king store, return
Finish(t) ==
    /\ pc[t][1] = "tail"
    /\ LET r == evaluateBoardTail([ ei |-> frames[FrameOf(t)], board |-> board[t],
                                    T |-> T, eval |-> acc[t] ], TableOf(t))
       IN  /\ board' = [board EXCEPT ![t] = r.board]
           /\ pktables' = IF pktArg[t] = NULL THEN pktables
                          ELSE [pktables EXCEPT ![pktArg[t]] = r.pktable]
           /\ out' = [out EXCEPT ![t] =
                         [ stored |-> r.stored, pieces |-> r.pieces, pkeval |-> r.pkeval,
                           total |-> r.total, rawPhase |-> r.rawPhase, phase |-> r.phase,
                           factor |-> r.factor, eval |-> r.eval, ret |-> r.ret ]]
           /\ T' = r.T
    /\ pc' = [pc EXCEPT ![t] = << "done", {} >>]
    /\ UNCHANGED << pktArg, frames, acc, ncalls, TRACE >>

\* thread t calls evaluateScaleFactor(&board[t]) on its own
ScaleFactor(t) ==
    /\ pc[t][1] = "idle"
    /\ out' = [out EXCEPT ![t] = [NoOut EXCEPT !.factor = evaluateScaleFactor(board[t])]]
    /\ pc' = [pc EXCEPT ![t] = << "done", {} >>]
    /\ UNCHANGED << board, pktables, pktArg, frames, acc, ncalls, T, TRACE >>

\* thread t makes its (limit)th call at most, on a board of bs, with a table of pkts
Run(t, bs, pkts, limit) ==
    \/ \E b \in bs, pkt \in pkts : ncalls[t] < limit /\ Call(t, b, pkt)
    \/ BuildContext(t)
    \/ \E colour \in Colours : Evaluate(t, colour)
    \/ Finish(t)

\* one thread, calling evaluateBoard again and again, with its table or with none
Next == Run(1, Boards, {NULL, 1}, MaxCalls)
Spec == Init /\ [][Next]_vars

\* one call of evaluateBoard on any of the Positions, from a memory never used
NextOnce == Run(1, AllBoards, {NULL, 1}, 1)
SpecOnce == Init /\ [][NextOnce]_vars

\* a build with TUNE, where TRACE is 1 and T is written: a call on any of the
\* Positions, and then calls on the same position again, which hit the table if the
\* call before stored in it
NextTune ==
    \/ Run(1, AllBoards, {NULL, 1}, 1)
    \/ \E pkt \in {NULL, 1} : ncalls[1] >= 1 /\ Call(1, board[1], pkt)
SpecTune ==
    InitWith({ MakeBoard(Positions[1][1], Positions[1][2], WHITE) }, {1}) /\ [][NextTune]_vars

\* two threads, each making one call with its own table, their steps interleaved
NextPar == \E t \in Threads : Run(t, ParBoards, {t}, 1)
SpecPar == Init /\ [][NextPar]_vars

\* evaluateScaleFactor on its own, on every material of ScaleBoards
InitScale == InitWith(ScaleBoards, {0})
NextScale == ScaleFactor(1)
SpecScale == InitScale /\ [][NextScale]_vars

(***************************************************************************)
(* Properties                                                              *)
(***************************************************************************)
Done(t) == pc[t][1] = "done"
Running(t) == pc[t][1] \notin {"idle", "done"}

\* the colour-mirrored twin of a board: ranks flipped, colours and side to move
\* exchanged, psqtmat and pkhash those of the mirrored placement
Mirror(b) ==
    LET flip(bb) == { square(7 - rankOf(s), fileOf(s)) : s \in bb }
        colours == [c \in Colours |-> flip(b.colours[Not(c)])]
        pieces == [k \in Kinds |-> flip(b.pieces[k])]
    IN  [ colours |-> colours, pieces |-> pieces, turn |-> Not(b.turn),
          psqtmat |-> PsqtMatOf(colours, pieces), pkhash |-> PkHashOf(colours, pieces) ]

\* what one call of evaluateBoard on board b gives when nothing else runs: with an
\* empty table or with none, from the content g of the memory of its EvalInfo
Reference(b, withTable, g) ==
    evaluateBoard(b, IF withTable THEN EmptyPawnKingTable ELSE NULL_TABLE, g, EmptyTrace)

\* C1: evaluateBoard returns on the colour-mirrored twin of a position what it
\* returned on the position, whether the twin is evaluated with a pawn-king table or
\* without one
ColourSymmetry ==
    Done(1) =>
        \A withTable \in BOOLEAN, g \in Garbages :
            Reference(Mirror(board[1]), withTable, g).ret = out[1].ret
\* a call with a table has returned a non-zero score on a position that is not its twin
WitnessColourSymmetry ==
    /\ Done(1)
    /\ pktArg[1] = 1
    /\ out[1].ret # 0
    /\ Mirror(board[1]).colours # board[1].colours

\* C2: whatever calls filled the pawn-king table before, a call given the table
\* returns the score the position gets with an empty table and with no table
CacheTransparency ==
    Done(1) /\ pktArg[1] # NULL =>
        \A withTable \in BOOLEAN, g \in Garbages :
            Reference(board[1], withTable, g).ret = out[1].ret
\* the second call on a table found the entry of its pawns and kings in it
WitnessCacheTransparency ==
    /\ Done(1)
    /\ ncalls[1] = 2
    /\ pktArg[1] = 1
    /\ ~out[1].stored
    /\ out[1].pkeval # 0

\* C3: without a table, what a call returns and everything it leaves in its EvalInfo
\* are those of a call that found any other content in that memory: nothing is
\* read that the call did not write before
NoHiddenState ==
    Done(1) /\ pktArg[1] = NULL =>
        \A g \in Garbages :
            LET r == Reference(board[1], FALSE, g)
            IN  r.ret = out[1].ret /\ r.ei = frames[1]
\* a second call, without a table, has returned after a call on other pawns and kings
WitnessNoHiddenState ==
    /\ Done(1)
    /\ ncalls[1] = 2
    /\ pktArg[1] = NULL
    /\ \E i \in DOMAIN pktables[1] :
           pktables[1][i].pkhash \notin { << >>, board[1].pkhash }

\* the entry a call of thread t that missed has to store
EntryOf(t) ==
    [ pkhash |-> board[t].pkhash,
      passed |-> frames[t].passedPawns,
      eval |-> frames[t].pkeval[WHITE] - frames[t].pkeval[BLACK] ]
Missed(t) ==
    pktArg[t] # NULL /\ getPawnKingEntry(pktables[t], board[t].pkhash) = NULL
StoreStep ==
    \A t \in Threads :
        /\ pktables'[t] # pktables[t] =>
               /\ pc[t][1] = "tail"
               /\ Missed(t)
               /\ pktables'[t] =
                      [pktables[t] EXCEPT ![PktIndex(board[t].pkhash)] = EntryOf(t)]
        /\ pc[t][1] = "tail" /\ pc'[t][1] = "done" /\ Missed(t) =>
               /\ pktables'[t][PktIndex(board[t].pkhash)] = EntryOf(t)
               /\ Cardinality({ i \in DOMAIN pktables[t] :
                                    pktables'[t][i] # pktables[t][i] }) = 1
\* C4: a table changes only in the last step of a call that was given it and whose
\* lookup missed, after all the evaluators have run; that step writes exactly one
\* entry, << pkhash, passedPawns, pkeval[WHITE] - pkeval[BLACK] >>, in the slot of the
\* board's pkhash; a call that hit, or that has no table, writes nothing
CacheWriteProtocol == [][StoreStep]_vars
\* a second call has stored its entry beside or over the entry of the first
WitnessCacheWriteProtocol ==
    /\ Done(1)
    /\ ncalls[1] = 2
    /\ out[1].stored
    /\ pktables[1][PktIndex(board[1].pkhash)].pkhash = board[1].pkhash

\* C5: the sum of the terms is White's view of the position; Tempo adds 25 to its
\* middlegame half and 12 to its endgame half when White is to move and takes them away
\* when Black is; the call returns the blend of that sum for White and minus it for Black
SideToMovePerspective ==
    Done(1) =>
        LET o == out[1]
            white == o.pieces + o.pkeval + board[1].psqtmat
            sign == IF board[1].turn = WHITE THEN 1 ELSE -1
            mg == ScoreMG(white) + sign * 25
            eg == ScoreEG(white) + sign * 12
            value == CDiv(mg * (256 - o.phase)
                            + CDiv(eg * o.phase * o.factor, SCALE_NORMAL), 256)
        IN  /\ ScoreMG(o.total) = mg
            /\ ScoreEG(o.total) = eg
            /\ o.ret = sign * value
\* a call with Black to move has returned a non-zero score
WitnessSideToMovePerspective ==
    /\ Done(1)
    /\ board[1].turn = BLACK
    /\ out[1].ret # 0
    /\ out[1].phase \notin {0, 256}

FrameStep ==
    /\ \A t \in Threads : Running(t) => board'[t] = board[t]
    /\ T' = T
    /\ \A u \in Threads :
           pktables'[u] # pktables[u] => \E t \in Threads : Running(t) /\ pktArg[t] = u
\* C6: no step of a call changes the Board the call was given; without TUNE the trace
\* T never changes, and a pawn-king table changes only in a call it was passed to
Frame == [][FrameStep]_vars
\* a call on a board with pawns, knights and kings has returned and stored its entry
WitnessFrame ==
    /\ Done(1)
    /\ out[1].stored
    /\ board[1].pieces[KNIGHT] # {}
    /\ board[1].pieces[PAWN] # {}

\* C7: of two calls whose steps interleave, each on its own EvalInfo and table, each
\* finds in its EvalInfo, once initializeEvalInfo has run, what that wrote for its own
\* board; has, when its evaluators are done, the sum and the EvalInfo it has when it
\* runs alone; and returns the score and leaves the table it does alone
ParallelIndependence ==
    \A t \in Threads :
        /\ pc[t] = << Stages[1], {} >> =>
               frames[t] = initializeEvalInfo(frames[t], board[t], pktables[t])
        /\ pc[t][1] \in {"tail", "done"} =>
               LET alone == Reference(board[t], TRUE, Garbage({}, 0))
               IN  /\ frames[t] = alone.ei
                   /\ acc[t] = alone.pieces
                   /\ Done(t) => out[t].ret = alone.ret /\ pktables[t] = alone.pktable
\* the two calls, on different boards, are both in flight with their evaluators done
WitnessParallelIndependence ==
    /\ pc[1][1] = "tail"
    /\ pc[2][1] = "tail"
    /\ board[1].pieces # board[2].pieces

\* C8: the raw material phase is never negative and the remapped phase lies in
\* 0..256, for every position the call is made on
PhaseInRange ==
    Done(1) => out[1].rawPhase >= 0 /\ out[1].phase \in 0..256

ScaleFactors ==
    { SCALE_OCB_BISHOPS_ONLY, SCALE_OCB_ONE_KNIGHT, SCALE_OCB_ONE_ROOK, SCALE_NORMAL }
\* C9: the value before the side-to-move negation is
\* (mg * (256 - phase) + eg * phase * scale / SCALE_NORMAL) / 256 in C's integer
\* division, with phase = (rawPhase * 256 + 12) / 24; it is mg at raw phase 0 and
\* eg * scale / SCALE_NORMAL at raw phase 24, and no scale factor changes what the
\* middlegame half contributes
FinalBlend ==
    Done(1) =>
        LET o == out[1]
            mg == ScoreMG(o.total)
            eg == ScoreEG(o.total)
            phase == CDiv(o.rawPhase * 256 + 12, 24)
            value(f) == CDiv(mg * (256 - phase) + CDiv(eg * phase * f, SCALE_NORMAL), 256)
        IN  /\ o.phase = phase
            /\ o.eval = value(o.factor)
            /\ o.ret \in { o.eval, -o.eval }
            /\ o.rawPhase = 0 => o.eval = mg
            /\ o.rawPhase = 24 => o.eval = CDiv(eg * o.factor, SCALE_NORMAL)
            /\ \A f \in ScaleFactors :
                   /\ Blend(o.total, o.phase, f) = value(f)
                   /\ Blend(MakeScore(mg, 0), o.phase, f) = CDiv(mg * (256 - phase), 256)
\* a call on bare kings, raw phase 24, has returned a score whose halves differ
WitnessFinalBlend ==
    /\ Done(1)
    /\ out[1].rawPhase = 24
    /\ ScoreMG(out[1].total) # ScoreEG(out[1].total)
    /\ out[1].eval # 0

Count(b, c, k) == Cardinality(b.pieces[k] \cap b.colours[c])
OneEach(b, k) == Count(b, WHITE, k) = 1 /\ Count(b, BLACK, k) = 1
SquareColour(s) == (fileOf(s) + rankOf(s)) % 2
OppositeBishops(b) ==
    /\ OneEach(b, BISHOP)
    /\ \A s, u \in b.pieces[BISHOP] : s # u => SquareColour(s) # SquareColour(u)
WithoutPawns(b) ==
    [b EXCEPT !.pieces[PAWN] = {},
              !.colours = [c \in Colours |-> b.colours[c] \ b.pieces[PAWN]]]
\* C10: evaluateScaleFactor returns SCALE_OCB_BISHOPS_ONLY exactly for one bishop a
\* side on squares of different colours and no knight, rook or queen,
\* SCALE_OCB_ONE_KNIGHT exactly for such bishops with one knight a side and no rook
\* or queen, SCALE_OCB_ONE_ROOK exactly for such bishops with one rook a side and no
\* knight or queen, SCALE_NORMAL exactly otherwise; and the same without the pawns
ScaleFactorClassification ==
    Done(1) =>
        LET b == board[1]
            f == out[1].factor
            none(k) == b.pieces[k] = {}
            bishopsOnly == OppositeBishops(b) /\ none(KNIGHT) /\ none(ROOK) /\ none(QUEEN)
            oneKnight == OppositeBishops(b) /\ OneEach(b, KNIGHT) /\ none(ROOK) /\ none(QUEEN)
            oneRook == OppositeBishops(b) /\ OneEach(b, ROOK) /\ none(KNIGHT) /\ none(QUEEN)
        IN  /\ f = SCALE_OCB_BISHOPS_ONLY <=> bishopsOnly
            /\ f = SCALE_OCB_ONE_KNIGHT <=> oneKnight
            /\ f = SCALE_OCB_ONE_ROOK <=> oneRook
            /\ f = SCALE_NORMAL <=> ~(bishopsOnly \/ oneKnight \/ oneRook)
            /\ f = evaluateScaleFactor(WithoutPawns(b))
\* the factor of opposite-coloured bishops with a rook a side and pawns was returned
WitnessScaleFactorClassification ==
    /\ Done(1)
    /\ out[1].factor = SCALE_OCB_ONE_ROOK
    /\ board[1].pieces[PAWN] # {}

BareKings(b) == \A k \in Kinds \ {KING} : b.pieces[k] = {}
StartBoard(turn) == MakeBoard(Positions[5][1], Positions[5][2], turn)
\* C12 as stated: on the initial position with White to move the call returns 37,
\* give or take 1
InitialPosition37 ==
    Done(1) /\ board[1] = StartBoard(WHITE) => out[1].ret \in 36..38
\* C12: on the initial position everything but Tempo cancels between the sides and
\* the phase is 0, so the call returns Tempo's middlegame half, 25, to the side to
\* move, White or Black
InitialPositionTempo ==
    \A turn \in Colours :
        Done(1) /\ board[1] = StartBoard(turn) =>
            /\ out[1].pieces + out[1].pkeval + board[1].psqtmat = 0
            /\ out[1].total = Tempo[turn + 1]
            /\ out[1].rawPhase = 0 /\ out[1].phase = 0
            /\ out[1].ret = 25
\* the call on the initial position with White to move has returned
WitnessInitialPositionTempo ==
    /\ Done(1)
    /\ board[1] = StartBoard(WHITE)
    /\ out[1].ret = ScoreMG(Tempo[WHITE + 1])
\* C13: with TRACE 0 the trace structure T holds after every step of every sequence
\* of calls, with a table or without, what it held before the first: no counter
\* of it is ever written
TraceOff == T = EmptyTrace
\* a second call has returned, on a board with pieces of every kind, a passed pawn
\* and a king under attack, the first call having filled the table
WitnessTraceOff ==
    /\ Done(1)
    /\ ncalls[1] = 2
    /\ \A k \in Kinds : board[1].pieces[k] # {}
    /\ frames[1].passedPawns # {}
    /\ \E c \in Colours : KingSafetyRuns(frames[1], board[1], c)
\* the board with b's pawns and kings and nothing else, the given side to move
PawnsAndKings(b, turn) ==
    LET side(c) == << b.pieces[PAWN] \cap b.colours[c], {}, {}, {}, {},
                      b.pieces[KING] \cap b.colours[c] >>
    IN  MakeBoard(side(WHITE), side(BLACK), turn)
\* C14: a call that finds no entry computes the passedPawns and the
\* pkeval[WHITE] - pkeval[BLACK] that the board with the same pawns and kings and no
\* other piece gets, whichever side is to move there, and stores the entry that board
\* stores: two boards that agree on pawns and kings get the same of both
CachedDataOfPawnsAndKings ==
    Done(1) =>
        \A turn \in Colours :
            LET bare == Reference(PawnsAndKings(board[1], turn), TRUE, Garbage({}, 0))
            IN  /\ frames[1].passedPawns = bare.ei.passedPawns
                /\ out[1].pkeval = bare.pkeval
                /\ out[1].stored => pktables[1] = bare.pktable
\* a call on a board with knights, rooks and queens has stored a passed pawn and a
\* non-zero pawn-king evaluation
WitnessCachedDataOfPawnsAndKings ==
    /\ Done(1)
    /\ out[1].stored
    /\ \A k \in {KNIGHT, ROOK, QUEEN} : board[1].pieces[k] # {}
    /\ frames[1].passedPawns # {}
    /\ out[1].pkeval # 0
\* the queens of both sides are done: the call is at evaluateKings or later
QueensDone(t) == pc[t][1] \in {"kings", "passed", "threats", "tail", "done"}
\* the squares the piece of side c and kind k on sq attacks, sliders through the
\* occupancy the evaluators give them
AttacksOfPiece(ei, c, k, sq) ==
    CASE k = PAWN -> pawnAttacks(c, sq)
      [] k = KNIGHT -> knightAttacks(sq)
      [] k = BISHOP -> bishopAttacks(sq, ei.occupiedMinusBishops[c])
      [] k = ROOK -> rookAttacks(sq, ei.occupiedMinusRooks[c])
      [] k = QUEEN -> rookAttacks(sq, ei.occupiedMinusRooks[c])
                         \cup bishopAttacks(sq, ei.occupiedMinusBishops[c])
      [] k = KING -> kingAttacks(sq)
\* how many pieces of side c attack square s, each pawn and piece counted
AttackersOf(ei, b, c, s) ==
    Cardinality({ sq \in b.colours[c] :
                    \E k \in Kinds : sq \in b.pieces[k] /\ s \in AttacksOfPiece(ei, c, k, sq) })
\* C15: once the pawns, knights, bishops, rooks and queens are done, attackedBy2 of a
\* side is exactly the set of squares at least two of its king, pawns and pieces
\* attack, two pawns attacking a square counting as two
AttackedBy2Exact ==
    QueensDone(1) =>
        \A c \in Colours :
            frames[1].attackedBy2[c]
                = { s \in Squares : AttackersOf(frames[1], board[1], c, s) >= 2 }
\* C16: from the end of the queens on, at every step of the call, attacked of a side
\* is the union of its attackedBy over the six kinds and contains its attackedBy2,
\* whatever the memory of the EvalInfo held before the call
AttackedIsUnion ==
    QueensDone(1) =>
        \A c \in Colours :
            /\ frames[1].attacked[c] = UNION { frames[1].attackedBy[c][k] : k \in Kinds }
            /\ frames[1].attackedBy2[c] \subseteq frames[1].attacked[c]
\* a call on a board with pieces of every kind is past its queens, and both sides
\* attack some square twice
WitnessAttackedIsUnion ==
    /\ pc[1][1] = "threats"
    /\ \A k \in Kinds : board[1].pieces[k] # {}
    /\ \A c \in Colours : frames[1].attackedBy2[c] # {}
\* the steps of one call in the order claimed for them
Order ==
    << "init", "pawns", "knights", "bishops", "rooks", "queens", "kings", "passed",
       "threats", "tail", "done" >>
StepNo(stage) == IF stage = "idle" THEN 0 ELSE CHOOSE i \in 1..Len(Order) : Order[i] = stage
IsEvaluator(stage) == StepNo(stage) \in 2..9
\* a step of the call moves to the next colour of its evaluator or, both colours
\* done, to the next step of Order; after "done" a new call starts
OrderedStep ==
    pc'[1] # pc[1] =>
        LET from == pc[1][1]
            to == pc'[1][1]
        IN  \/ /\ IsEvaluator(from) /\ to = from
               /\ pc[1][2] = {}
               /\ Cardinality(pc'[1][2]) = 1
            \/ /\ IsEvaluator(from) /\ StepNo(to) = StepNo(from) + 1
               /\ Cardinality(pc[1][2]) = 1
               /\ pc'[1][2] = {}
            \/ /\ from \in {"init", "tail"} /\ StepNo(to) = StepNo(from) + 1
               /\ pc[1][2] = {} /\ pc'[1][2] = {}
            \/ from \in {"idle", "done"} /\ pc'[1] = << "init", {} >>
\* of the two calls of a step, White's is made first
WhiteFirstStep == pc'[1][2] # {BLACK}
\* the attack maps and king-attack counters of an EvalInfo
AttackState(ei) ==
    << ei.attacked, ei.attackedBy, ei.attackedBy2,
       ei.kingAttacksCount, ei.kingAttackersCount, ei.kingAttackersWeight >>
\* no step from evaluateKings on changes an attack map or a king-attack counter
FinalStep ==
    pc[1][1] \in {"kings", "passed", "threats", "tail"} =>
        AttackState(frames'[1]) = AttackState(frames[1])
\* C17 as stated: the steps run in the order of Order, White's call before Black's in
\* each, and nothing after the queens changes an attack map or a king-attack counter
OrderWhiteFirstAndFinality == [][OrderedStep /\ WhiteFirstStep /\ FinalStep]_vars
\* C17: the steps run in the order of Order, the two calls of a step in either
\* order, and in both orders nothing after the queens changes an attack map or a
\* king-attack counter: both evaluateKings calls, evaluatePassedPawns and
\* evaluateThreats read final values
OrderAndFinality == [][OrderedStep /\ FinalStep]_vars
\* evaluateKings has run for Black and not yet for White, on a board where both sides
\* attack the other king's area
WitnessOrderAndFinality ==
    /\ pc[1] = << "kings", {BLACK} >>
    /\ \A c \in Colours : frames[1].kingAttackersCount[c] > 0
\* the step is the call of evaluateKings for colour c
KingsStep(c) ==
    /\ pc[1][1] = "kings"
    /\ c \notin pc[1][2]
    /\ pc'[1] = IF pc[1][2] = {} THEN << "kings", {c} >> ELSE << "passed", {} >>
\* what that call returned, from the sum evaluatePieces keeps
KingTerm(c) == IF c = WHITE THEN acc'[1] - acc[1] ELSE acc[1] - acc'[1]
\* the bonus for the pawns and minors of c in the area of its king
DefendersBonus(c) ==
    KingDefenders[popcount(board[1].colours[c] \cap frames[1].kingAreas[c]
                              \cap (board[1].pieces[PAWN] \cup board[1].pieces[KNIGHT]
                                       \cup board[1].pieces[BISHOP])) + 1]
\* two attackers of the king of c, or one while the opponent has a queen
TwoAttackersOrOneAndQueen(c) ==
    \/ frames[1].kingAttackersCount[Not(c)] >= 2
    \/ /\ frames[1].kingAttackersCount[Not(c)] >= 1
       /\ board[1].pieces[QUEEN] \cap board[1].colours[Not(c)] # {}
KingSafetyTriggerStep ==
    \A c \in Colours :
        KingsStep(c) =>
            /\ KingSafetyRuns(frames[1], board[1], c) <=> TwoAttackersOrOneAndQueen(c)
            /\ frames[1].kingAttackersCount[Not(c)] = 0 => KingTerm(c) = DefendersBonus(c)
\* C18: the danger computation for the king of a side runs exactly when the opponent
\* has two attackers of the king area, or one and still a queen; with no attacker it
\* does not run and takes nothing from the king's score, however many queens the
\* opponent has
KingSafetyTrigger == [][KingSafetyTriggerStep]_vars
KingSafetyPenaltyStep ==
    \A c \in Colours :
        KingsStep(c) =>
            LET count == KingDanger(frames[1], board[1], c)
                term == KingTerm(c)
                bonus == DefendersBonus(c)
            IN  /\ IF KingSafetyRuns(frames[1], board[1], c) /\ count > 0
                   THEN /\ ScoreMG(term) = ScoreMG(bonus) - (count * count) \div 720
                        /\ ScoreEG(term) = ScoreEG(bonus) - count \div 20
                   ELSE term = bonus
                /\ ScoreMG(term) <= ScoreMG(bonus)
                /\ ScoreEG(term) <= ScoreEG(bonus)
\* C19: where the danger computation runs and its count is positive, evaluateKings
\* returns the defenders' bonus less count * count / 720 in the middlegame half and
\* less count / 20 in the endgame half; where count <= 0, or the computation does not
\* run, it returns the bonus; neither half is ever above that of the bonus
KingSafetyPenalty == [][KingSafetyPenaltyStep]_vars
\* evaluateKings has run for White, whose king is in danger with a positive count
WitnessKingSafetyPenalty ==
    /\ pc[1][1] = "kings"
    /\ WHITE \in pc[1][2]
    /\ KingSafetyRuns(frames[1], board[1], WHITE)
    /\ KingDanger(frames[1], board[1], WHITE) >= 720
\* the step is the call of evaluateRooks for colour c
RooksStep(c) ==
    /\ pc[1][1] = "rooks"
    /\ c \notin pc[1][2]
    /\ pc'[1] = IF pc[1][2] = {} THEN << "rooks", {c} >> ELSE << "queens", {} >>
RooksOf(c) == board[1].pieces[ROOK] \cap board[1].colours[c]
\* what the rooks of c get for their files and their mobility
RECURSIVE RookFileAndMobility(_, _)
RookFileAndMobility(rooks, c) ==
    IF rooks = {} THEN 0
    ELSE LET sq == CHOOSE s \in rooks : TRUE
             onFile(side) == board[1].pieces[PAWN] \cap board[1].colours[side]
                                \cap Files[fileOf(sq)]
             attacks == rookAttacks(sq, frames[1].occupiedMinusRooks[c])
         IN    (IF onFile(c) = {} THEN RookFile[Bool(onFile(Not(c)) = {}) + 1] ELSE 0)
             + RookMobility[popcount(frames[1].mobilityAreas[c] \cap attacks) + 1]
             + RookFileAndMobility(rooks \ {sq}, c)
\* the rooks of c on relative rank `rank' while the enemy king's relative rank is at
\* least kingRank, both counted from 0
RooksOnRank(c, rank, kingRank) ==
    { sq \in RooksOf(c) :
        /\ relativeRankOf(c, sq) = rank
        /\ relativeRankOf(c, frames[1].kingSquare[Not(c)]) >= kingRank }
\* evaluateRooks gives RookOnSeventh = (0, 32) to exactly those rooks
RookOnSeventhStep(rank, kingRank) ==
    \A c \in Colours :
        RooksStep(c) =>
            /\ RookOnSeventh = MakeScore(0, 32)
            /\ (IF c = WHITE THEN acc'[1] - acc[1] ELSE acc[1] - acc'[1])
                  = RookFileAndMobility(RooksOf(c), c)
                       + Cardinality(RooksOnRank(c, rank, kingRank)) * RookOnSeventh
\* C20 as stated: a rook receives RookOnSeventh = (0, 32) exactly when its relative
\* rank, counted from 0, is 7 and the enemy king's relative rank is at least 7
RookOnSeventhRank7 == [][RookOnSeventhStep(7, 7)]_vars
\* C20: a rook receives RookOnSeventh = (0, 32) exactly when its relative rank,
\* counted from 0, is 6 (its seventh rank) and the enemy king's relative rank is at
\* least 6 (the king is on one of its last two ranks)
RookOnSeventhRank6 == [][RookOnSeventhStep(6, 6)]_vars
\* evaluateRooks has run for White, with one rook on the seventh rank that got the
\* bonus and one on the eighth that did not
WitnessRookOnSeventhRank6 ==
    /\ pc[1] = << "rooks", {WHITE} >>
    /\ RooksOnRank(WHITE, 6, 6) # {}
    /\ RooksOnRank(WHITE, 7, 7) # {}

(***************************************************************************)
(* Claims about the terms of the evaluators.  In a build with TUNE the     *)
(* code counts every term it adds in T: the counters are read with Count   *)
(***************************************************************************)
\* T.x[i][US] as the call has left it so far
Traced(key) == CopiesIn(key, T)
\* the stages from the one named on, and the end of the call
StagesFrom(stage) ==
    { Stages[i] : i \in { j \in 1..Len(Stages) :
                            \E k \in 1..j : Stages[k] = stage } } \cup {"tail", "done"}
\* the evaluator of the stage has returned for colour c in the first call of
\* thread 1, so that T holds what that call counted and nothing else
StageDone(stage, c) ==
    /\ ncalls[1] = 1
    /\ \/ pc[1][1] = stage /\ c \in pc[1][2]
       \/ pc[1][1] \in StagesFrom(stage) \ {stage}
PawnsOf(c) == board[1].pieces[PAWN] \cap board[1].colours[c]

\* the times PawnStacked is due to side c: k - 1 for every file that holds k >= 1
\* pawns of c
StackedDue(c, files) ==
    Cardinality({ sq \in PawnsOf(c) : fileOf(sq) \in files
                                      /\ sq # getmsb(PawnsOf(c) \cap Files[fileOf(sq)]) })
\* C21: on a cache miss the pawn loop of side c adds PawnStacked, for each file
\* holding k >= 1 pawns of c, exactly k - 1 times, whatever the ranks of the pawns
\* and whichever colour c is: once the loop has run the counter of the term is the
\* sum of k - 1 over the files, and pkeval[c] holds PawnStacked that many times
\* next to the other pawn terms
StackedPawns ==
    \A c \in Colours :
        StageDone("pawns", c) /\ frames[1].pkentry = NULL =>
            /\ Traced(<<"PawnStacked", c>>) = StackedDue(c, 0..(FILE_NB - 1))
            /\ \A f \in 0..(FILE_NB - 1) :
                   LET k == popcount(PawnsOf(c) \cap Files[f])
                   IN  StackedDue(c, {f}) = IF k >= 1 THEN k - 1 ELSE 0
\* a call has returned on a position where both sides have three pawns on one file
\* and PawnStacked was added twice for each
WitnessStackedPawns ==
    /\ Done(1)
    /\ ncalls[1] = 1
    /\ \A c \in Colours :
           /\ \E f \in 0..(FILE_NB - 1) : popcount(PawnsOf(c) \cap Files[f]) = 3
           /\ Traced(<<"PawnStacked", c>>) = 2

\* the sets lines 354-359 compute for the pawn of side c on sq
StoppersOf(c, sq) == PawnsOf(Not(c)) \cap passedPawnMasks(c, sq)
ThreatsOf(c, sq) == PawnsOf(Not(c)) \cap pawnAttacks(c, sq)
SupportOf(c, sq) == PawnsOf(c) \cap pawnAttacks(Not(c), sq)
PushThreatsOf(c, sq) == PawnsOf(Not(c)) \cap pawnAttacks(c, sq + Forward(c))
PushSupportOf(c, sq) == PawnsOf(c) \cap pawnAttacks(Not(c), sq + Forward(c))
\* a ^ b on bitboards
XorOf(a, b) == (a \ b) \cup (b \ a)
\* stoppers ^ threats ^ pushThreats
LeftoversOf(c, sq) ==
    XorOf(XorOf(StoppersOf(c, sq), ThreatsOf(c, sq)), PushThreatsOf(c, sq))
\* the pawn has stoppers, no leftovers and at least as many push supporters as
\* push threats
CandidateOf(c, sq) ==
    /\ StoppersOf(c, sq) # {}
    /\ LeftoversOf(c, sq) = {}
    /\ popcount(PushSupportOf(c, sq)) >= popcount(PushThreatsOf(c, sq))
\* C22: on a cache miss the pawn loop of side c puts into passedPawns exactly the
\* pawns of c with no enemy pawn on their passed-pawn mask, adds
\* PawnCandidatePasser[flag][rank] exactly for the pawns that have stoppers, no
\* leftovers and |pushSupport| >= |pushThreats| (so for no passed pawn), and after
\* both sides passedPawns holds squares of pawns only
PassedVersusCandidate ==
    /\ \A c \in Colours :
           StageDone("pawns", c) /\ frames[1].pkentry = NULL =>
               /\ frames[1].passedPawns \cap PawnsOf(c) =
                      { sq \in PawnsOf(c) : StoppersOf(c, sq) = {} }
               /\ \A flag \in {0, 1}, rel \in 0..7 :
                      Traced(<<"PawnCandidatePasser", flag, rel, c>>) =
                          Cardinality({ sq \in PawnsOf(c) :
                              /\ CandidateOf(c, sq)
                              /\ relativeRankOf(c, sq) = rel
                              /\ Bool(popcount(SupportOf(c, sq)) >=
                                      popcount(ThreatsOf(c, sq))) = flag })
    /\ StageDone("pawns", WHITE) /\ StageDone("pawns", BLACK)
           /\ frames[1].pkentry = NULL =>
               frames[1].passedPawns \subseteq board[1].pieces[PAWN]
\* a call has returned on a position with a passed pawn, a candidate passer that was
\* given its bonus and a pawn that is neither
WitnessPassedVersusCandidate ==
    /\ Done(1)
    /\ ncalls[1] = 1
    /\ frames[1].pkentry = NULL
    /\ frames[1].passedPawns # {}
    /\ \E c \in Colours, flag \in {0, 1}, rel \in 0..7 :
           Traced(<<"PawnCandidatePasser", flag, rel, c>>) > 0
    /\ \E c \in Colours : \E sq \in PawnsOf(c) :
           StoppersOf(c, sq) # {} /\ ~CandidateOf(c, sq)

\* the squares ahead of a pawn of side c on sq, on its file, up to the promotion
\* square
AheadOnFile(c, sq) ==
    { s \in Files[fileOf(sq)] : relativeRankOf(c, s) > relativeRankOf(c, sq) }
\* C23: a passed pawn receives PassedSafePromotionPath exactly when no square ahead
\* of it on its file, the promotion square included, is attacked by the enemy,
\* whether or not the pawn's own square is attacked: once evaluatePassedPawns has
\* run for side c the term was added once for each such passed pawn of c
SafePromotionPathAhead ==
    \A c \in Colours :
        StageDone("passed", c) =>
            Traced(<<"PassedSafePromotionPath", c>>) =
                Cardinality({ sq \in frames[1].passedPawns \cap board[1].colours[c] :
                                AheadOnFile(c, sq) \cap frames[1].attacked[Not(c)] = {} })

(***************************************************************************)
(* The weight a counter of T stands for: T.x[i][j][US] counts additions of *)
(* x[i][j], T.PawnValue[US] of the material of a pawn                      *)
(***************************************************************************)
TermTable(name) ==
    CASE name = "PawnValue" -> MakeScore(PieceValues[PAWN + 1][MG + 1], PieceValues[PAWN + 1][EG + 1])
      [] name = "KnightValue" -> MakeScore(PieceValues[KNIGHT + 1][MG + 1], PieceValues[KNIGHT + 1][EG + 1])
      [] name = "BishopValue" -> MakeScore(PieceValues[BISHOP + 1][MG + 1], PieceValues[BISHOP + 1][EG + 1])
      [] name = "RookValue" -> MakeScore(PieceValues[ROOK + 1][MG + 1], PieceValues[ROOK + 1][EG + 1])
      [] name = "QueenValue" -> MakeScore(PieceValues[QUEEN + 1][MG + 1], PieceValues[QUEEN + 1][EG + 1])
      [] name = "KingValue" -> MakeScore(PieceValues[KING + 1][MG + 1], PieceValues[KING + 1][EG + 1])
      [] name = "PawnIsolated" -> PawnIsolated
      [] name = "PawnStacked" -> PawnStacked
      [] name = "KnightBehindPawn" -> KnightBehindPawn
      [] name = "BishopPair" -> BishopPair
      [] name = "BishopRammedPawns" -> BishopRammedPawns
      [] name = "BishopBehindPawn" -> BishopBehindPawn
      [] name = "RookOnSeventh" -> RookOnSeventh
      [] name = "PassedSafePromotionPath" -> PassedSafePromotionPath
      [] name = "ThreatWeakPawn" -> ThreatWeakPawn
      [] name = "ThreatMinorAttackedByPawn" -> ThreatMinorAttackedByPawn
      [] name = "ThreatMinorAttackedByMinor" -> ThreatMinorAttackedByMinor
      [] name = "ThreatMinorAttackedByMajor" -> ThreatMinorAttackedByMajor
      [] name = "ThreatRookAttackedByLesser" -> ThreatRookAttackedByLesser
      [] name = "ThreatQueenAttackedByOne" -> ThreatQueenAttackedByOne
      [] name = "ThreatOverloadedPieces" -> ThreatOverloadedPieces
      [] name = "ThreatByPawnPush" -> ThreatByPawnPush
      [] name = "PawnCandidatePasser" -> PawnCandidatePasser
      [] name = "PawnBackwards" -> PawnBackwards
      [] name = "PawnConnected32" -> PawnConnected32
      [] name = "KnightOutpost" -> KnightOutpost
      [] name = "KnightMobility" -> KnightMobility
      [] name = "BishopOutpost" -> BishopOutpost
      [] name = "BishopMobility" -> BishopMobility
      [] name = "RookFile" -> RookFile
      [] name = "RookMobility" -> RookMobility
      [] name = "QueenMobility" -> QueenMobility
      [] name = "KingDefenders" -> KingDefenders
      [] name = "KingShelter" -> KingShelter
      [] name = "KingStorm" -> KingStorm
      [] name = "PassedPawn" -> PassedPawn
      [] name = "PassedFriendlyDistance" -> PassedFriendlyDistance
      [] name = "PassedEnemyDistance" -> PassedEnemyDistance
      [] name = "PawnPSQT32" -> PawnPSQT32
      [] name = "KnightPSQT32" -> KnightPSQT32
      [] name = "BishopPSQT32" -> BishopPSQT32
      [] name = "RookPSQT32" -> RookPSQT32
      [] name = "QueenPSQT32" -> QueenPSQT32
      [] name = "KingPSQT32" -> KingPSQT32
WeightOf(key) ==
    LET t == TermTable(key[1])
    IN  CASE Len(key) = 2 -> t
          [] Len(key) = 3 -> t[key[2] + 1]
          [] Len(key) = 4 -> t[key[2] + 1][key[3] + 1]
          [] Len(key) = 5 -> t[key[2] + 1][key[3] + 1][key[4] + 1]
\* the side a counter belongs to: its last index
SideOf(key) == key[Len(key)]
\* the sum over the counters keys of bag B, and of counter times weight
RECURSIVE Tally(_, _)
Tally(keys, B) ==
    IF keys = {} THEN 0
    ELSE LET k == CHOOSE x \in keys : TRUE
         IN  CopiesIn(k, B) + Tally(keys \ {k}, B)
RECURSIVE Weigh(_, _)
Weigh(keys, B) ==
    IF keys = {} THEN 0
    ELSE LET k == CHOOSE x \in keys : TRUE
         IN  CopiesIn(k, B) * WeightOf(k) + Weigh(keys \ {k}, B)
\* the counters of side c in B whose name is one of names
KeysOf(B, names, c) ==
    { k \in BagToSet(B) : k[1] \in names /\ SideOf(k) = c }

\* the files of line 717 for the king of side c
ShelterFiles(c) ==
    { f \in 0..(FILE_NB - 1) : Abs(f - fileOf(frames[1].kingSquare[c])) <= 1 }
ShelterKeys(f, dists, c) ==
    { <<"KingShelter", onFile, f, d, c>> : onFile \in {0, 1}, d \in dists }
StormKeys(m, c) ==
    { <<"KingStorm", blocked, m, d, c>> : blocked \in {0, 1}, d \in 0..7 }
\* what evaluateKings of side c counted in T on the step
KingsCounted == T' (-) T
ShelterAndStormStep(c) ==
    LET added == KeysOf(KingsCounted, {"KingShelter", "KingStorm"}, c)
        n == Cardinality(ShelterFiles(c))
        edge == fileOf(frames[1].kingSquare[c]) \in {0, FILE_NB - 1}
    IN  KingsStep(c) =>
            IF frames[1].pkentry = NULL
            THEN /\ n = IF edge THEN 2 ELSE 3
                 /\ added \subseteq
                        UNION { ShelterKeys(f, 0..7, c) : f \in 0..(FILE_NB - 1) }
                            \cup UNION { StormKeys(m, c) : m \in 0..3 }
                 /\ \A f \in 0..(FILE_NB - 1) :
                        /\ Tally(ShelterKeys(f, 0..7, c), KingsCounted) =
                               IF f \in ShelterFiles(c) THEN 1 ELSE 0
                        /\ f \in ShelterFiles(c) =>
                               (Tally(ShelterKeys(f, {7}, c), KingsCounted) = 1 <=>
                                   PawnsOf(c) \cap Files[f] \cap
                                       forwardRanksMasks(c, rankOf(frames[1].kingSquare[c])) = {})
                 /\ \A m \in 0..3 :
                        Tally(StormKeys(m, c), KingsCounted) =
                            Cardinality({ f \in ShelterFiles(c) : mirrorFile(f) = m })
                 /\ frames'[1].pkeval[c] - frames[1].pkeval[c] = Weigh(added, KingsCounted)
            ELSE /\ added = {}
                 /\ frames'[1].pkeval = frames[1].pkeval
\* C24: on a cache miss evaluateKings adds to pkeval[us] exactly one KingShelter and
\* one KingStorm entry for every file of [kingFile-1, kingFile+1] clamped to [0,7]
\* (two files for a king on the a- or h-file, three otherwise), with ourDist and
\* theirDist in 0..7, 7 standing for no pawn, and the storm file index in 0..3; on a
\* cache hit it adds none of them
ShelterAndStorm == [][\A c \in Colours : ShelterAndStormStep(c)]_vars
\* a second call on a position with the white king on the h-file hit the table and
\* evaluateKings has run for White: T holds the two shelter and two storm entries of
\* the first call and no more
WitnessShelterAndStorm ==
    /\ ncalls[1] = 2
    /\ pc[1][1] \in StagesFrom("passed")
    /\ frames[1].pkentry # NULL
    /\ fileOf(frames[1].kingSquare[WHITE]) = FILE_NB - 1
    /\ Tally(KeysOf(T, {"KingShelter"}, WHITE), T) = 2
    /\ Tally(KeysOf(T, {"KingStorm"}, WHITE), T) = 2

\* the king evaluators are about to start in the call of thread 1
KingsStart == pc[1] = << "kings", {} >>
\* the squares of the enemy king's area that the piece of side c on sq attacks
HitsOn(c, k, sq) == AttacksOfPiece(frames[1], c, k, sq) \cap frames[1].kingAreas[Not(c)]
\* the knights, bishops, rooks and queens of c whose attacks meet that area, by kind
KingAttackers(c, k) ==
    { sq \in board[1].colours[c] \cap board[1].pieces[k] : HitsOn(c, k, sq) # {} }
PieceKinds == { KNIGHT, BISHOP, ROOK, QUEEN }
\* the sum of the popcounts of the intersections over those pieces
PieceHitsCount(c) ==
    Cardinality({ h \in (board[1].colours[c] \ board[1].pieces[PAWN]) \X frames[1].kingAreas[Not(c)] :
                    \E k \in PieceKinds : h[1] \in KingAttackers(c, k)
                                              /\ h[2] \in HitsOn(c, k, h[1]) })
AttackersCounted(c) ==
    /\ frames[1].kingAttackersCount[c] =
           Cardinality(UNION { KingAttackers(c, k) : k \in PieceKinds })
    /\ frames[1].kingAttackersWeight[c] =
             KSAttackWeight[KNIGHT + 1] * Cardinality(KingAttackers(c, KNIGHT))
           + KSAttackWeight[BISHOP + 1] * Cardinality(KingAttackers(c, BISHOP))
           + KSAttackWeight[ROOK + 1] * Cardinality(KingAttackers(c, ROOK))
           + KSAttackWeight[QUEEN + 1] * Cardinality(KingAttackers(c, QUEEN))
\* C25 as stated: when the king evaluators start, kingAttackersCount[us] is the number
\* of own knights, bishops, rooks and queens whose attacks meet kingAreas[them],
\* kingAttackersWeight[us] the sum of KSAttackWeight over them and kingAttacksCount[us]
\* the sum of the popcounts of those intersections over exactly those pieces
KingAttackPiecesOnly ==
    KingsStart =>
        \A c \in Colours :
            /\ AttackersCounted(c)
            /\ frames[1].kingAttacksCount[c] = PieceHitsCount(c)
\* C25 as the code has it: the attackers and their weights are those of the pieces,
\* and kingAttacksCount[us] is the sum of the popcounts over those pieces plus the
\* number of squares of kingAreas[them] in the side's pawn attacks (lines 335-337)
KingAttackAccumulation ==
    KingsStart =>
        \A c \in Colours :
            /\ AttackersCounted(c)
            /\ frames[1].kingAttacksCount[c] =
                   PieceHitsCount(c)
                       + popcount(frames[1].pawnAttacks[c] \cap frames[1].kingAreas[Not(c)])
\* the king evaluators start with a side that has a piece and a pawn bearing on the
\* enemy king's area, and more attacks counted than its pieces make
WitnessKingAttackAccumulation ==
    /\ KingsStart
    /\ \E c \in Colours :
           /\ frames[1].kingAttackersCount[c] >= 1
           /\ frames[1].kingAttackersWeight[c] > 0
           /\ frames[1].pawnAttacks[c] \cap frames[1].kingAreas[Not(c)] # {}
           /\ frames[1].kingAttacksCount[c] > PieceHitsCount(c)

\* a square flipped vertically, and mirrored left to right
FlipRank(s) == 8 * (7 - rankOf(s)) + fileOf(s)
MirrorFileOf(s) == 8 * rankOf(s) + (7 - fileOf(s))
Material(k) == MakeScore(PieceValues[k + 1][MG + 1], PieceValues[k + 1][EG + 1])
\* the sum, over the pieces of the board of thread 1 on squares, of the entries the
\* claim gives them
RECURSIVE ClaimedPsqtmat(_)
ClaimedPsqtmat(squares) ==
    IF squares = {} THEN 0
    ELSE LET s == CHOOSE x \in squares : TRUE
             k == CHOOSE x \in Kinds : s \in board[1].pieces[x]
             entry == IF s \in board[1].colours[WHITE]
                      THEN Material(k) + PSQT32[k + 1][relativeSquare32(s, WHITE) + 1]
                      ELSE - Material(k)
                           - PSQT32[k + 1][relativeSquare32(FlipRank(s), WHITE) + 1]
         IN  entry + ClaimedPsqtmat(squares \ {s})
\* C26: for every piece kind p and square s, PSQT[white p][s] is material(p) +
\* table_p[relativeSquare32(s, WHITE)] and PSQT[black p][s] is -PSQT[white p][s
\* flipped vertically]; relativeSquare32 is in 0..31 for every square and colour and
\* is unchanged by mirroring the file, so every table is left-right symmetric; the
\* psqtmat of a board the evaluator is called on is the sum of these entries
PsqtConstruction ==
    /\ \A k \in Kinds, s \in Squares :
           /\ PSQT[WHITE][k][s] =
                  Material(k) + PSQT32[k + 1][relativeSquare32(s, WHITE) + 1]
           /\ PSQT[BLACK][k][s] = - PSQT[WHITE][k][FlipRank(s)]
           /\ \A c \in Colours : PSQT[c][k][MirrorFileOf(s)] = PSQT[c][k][s]
    /\ \A s \in Squares, c \in Colours :
           /\ relativeSquare32(s, c) \in 0..31
           /\ relativeSquare32(MirrorFileOf(s), c) = relativeSquare32(s, c)
    /\ board[1].psqtmat =
           ClaimedPsqtmat(board[1].colours[WHITE] \cup board[1].colours[BLACK])
\* a call has returned on a board with pieces of every kind on both sides, some of
\* them on the right half of the board, whose psqtmat is not zero
WitnessPsqtConstruction ==
    /\ Done(1)
    /\ board[1].psqtmat # 0
    /\ \A c \in Colours, k \in Kinds : board[1].colours[c] \cap board[1].pieces[k] # {}
    /\ \E s \in board[1].colours[BLACK] : fileOf(s) > 3

\* counter times weight summed over the counters of bag B, White's less Black's
TracedScore(B) ==
    LET side(c) == Weigh({ k \in BagToSet(B) : SideOf(k) = c }, B)
    IN  side(WHITE) - side(BLACK)
\* what line 708 takes from the king score of side c
DangerTaken(c) ==
    LET count == KingDanger(frames[1], board[1], c)
    IN  IF KingSafetyRuns(frames[1], board[1], c) /\ count > 0
        THEN MakeScore(CDiv(count * count, 720), CDiv(count, 20))
        ELSE 0
\* the first call of thread 1 has returned: T holds what it counted
FirstCallDone == Done(1) /\ ncalls[1] = 1
\* C27 as stated: with tracing enabled every term that contributes to the score is
\* counted in T, so that the score before tapering is the sum over the counters of
\* counter times weight, White's less Black's, and nothing contributes uncounted
TraceComplete ==
    FirstCallDone => out[1].total = TracedScore(T)
\* the counters that a pawn-king hit leaves alone
PawnKingTerms ==
    { "PawnValue", "PawnPSQT32", "PawnCandidatePasser", "PawnIsolated", "PawnStacked",
      "PawnBackwards", "PawnConnected32", "KingShelter", "KingStorm" }
\* C27 as the code has it: on a call without a table or missing it, the score before
\* tapering is the sum over the counters of counter times weight, White's less
\* Black's, plus Tempo of the side to move and less what the king-safety penalty
\* takes, neither of which is counted; a call that hits the table makes the same score
\* and counts no pawn, shelter or storm term
TraceCompleteness ==
    /\ FirstCallDone =>
           out[1].total = TracedScore(T) + Tempo[board[1].turn + 1]
                              - (DangerTaken(WHITE) - DangerTaken(BLACK))
    /\ Done(1) /\ ncalls[1] = 2 /\ frames[1].pkentry # NULL =>
           LET first == Reference(board[1], TRUE, Garbage({}, 0))
               second == T (-) first.T
           IN  /\ out[1].total = first.total
               /\ \A c \in Colours : KeysOf(second, PawnKingTerms, c) = {}
               /\ \A k \in BagToSet(first.T) :
                      k[1] \notin PawnKingTerms => CopiesIn(k, second) = CopiesIn(k, first.T)
\* the first call has returned on a position where a king-safety penalty was taken,
\* with counters that were raised by more than one in one step
WitnessTraceCompleteness ==
    /\ FirstCallDone
    /\ DangerTaken(WHITE) # 0
    /\ \E k \in BagToSet(T) : k[1] = "PassedFriendlyDistance" /\ CopiesIn(k, T) > 1
    /\ out[1].total # TracedScore(T) + Tempo[board[1].turn + 1]

\* the mobility tables by kind, and the largest count the claim allows for each
MobilityTable(k) ==
    CASE k = KNIGHT -> KnightMobility
      [] k = BISHOP -> BishopMobility
      [] k = ROOK -> RookMobility
      [] k = QUEEN -> QueenMobility
MobilityName(k) ==
    CASE k = KNIGHT -> "KnightMobility"
      [] k = BISHOP -> "BishopMobility"
      [] k = ROOK -> "RookMobility"
      [] k = QUEEN -> "QueenMobility"
MobilityLimit(k) ==
    CASE k = KNIGHT -> 8
      [] k = BISHOP -> 13
      [] k = ROOK -> 14
      [] k = QUEEN -> 27
\* the attacks of a piece of kind k on sq through the occupancy occ
AttacksThrough(k, sq, occ) ==
    CASE k = KNIGHT -> knightAttacks(sq)
      [] k = BISHOP -> bishopAttacks(sq, occ)
      [] k = ROOK -> rookAttacks(sq, occ)
      [] k = QUEEN -> rookAttacks(sq, occ) \cup bishopAttacks(sq, occ)
\* on every square, with nothing in the way, no piece attacks more squares than
\* the limit of its kind, and every table has an entry for the limit
LimitsOnEmptyBoard ==
    \A k \in PieceKinds :
        /\ MobilityLimit(k) + 1 <= Len(MobilityTable(k))
        /\ \A sq \in Squares : popcount(AttacksThrough(k, sq, {})) <= MobilityLimit(k)
\* C28: the count popcount(attacks & mobilityAreas[us]) that indexes a mobility table
\* is at most 8 for a knight, 13 for a bishop, 14 for a rook and 27 for a queen, so
\* no table is read out of bounds, also when the attacks x-ray through own sliders:
\* every piece on the board attacks, through the occupancies the evaluators use, a
\* subset of what it attacks on an empty board, which is within the limit and the
\* table, and every count the evaluators indexed a table with is within them
MobilityIndexBounds ==
    /\ LimitsOnEmptyBoard
    /\ \A k \in PieceKinds, c \in Colours :
           \A sq \in board[1].pieces[k] \cap board[1].colours[c] :
               LET attacks == AttacksOfPiece(frames[1], c, k, sq)
               IN  /\ attacks \subseteq AttacksThrough(k, sq, {})
                   /\ popcount(attacks \cap frames[1].mobilityAreas[c]) <= MobilityLimit(k)
    /\ \A k \in PieceKinds, key \in BagToSet(T) :
           key[1] = MobilityName(k) =>
               key[2] \in 0..MobilityLimit(k) /\ key[2] + 1 <= Len(MobilityTable(k))
\* the first call has returned on a position where a queen was counted with twenty
\* squares or more and a queen attacks, through a slider of her side, squares she
\* would not attack through the full occupancy
WitnessMobilityIndexBounds ==
    /\ FirstCallDone
    /\ \E key \in BagToSet(T) : key[1] = "QueenMobility" /\ key[2] >= 20
    /\ \E c \in Colours :
           \E sq \in board[1].pieces[QUEEN] \cap board[1].colours[c] :
               AttacksOfPiece(frames[1], c, QUEEN, sq)
                   # rookAttacks(sq, board[1].colours[WHITE] \cup board[1].colours[BLACK])
                       \cup bishopAttacks(sq, board[1].colours[WHITE]
                                                  \cup board[1].colours[BLACK])

\* the squares a pawn can stand on: the second to the seventh rank
PawnSquares == { s \in Squares : rankOf(s) \in 1..6 }
\* for a pawn of either colour on any square it can stand on: the square ahead is on
\* the board, and the squares from which an enemy pawn attacks the pawn or the
\* square ahead are apart and within the passed-pawn mask
ForwardAndMasks ==
    \A c \in Colours, sq \in PawnSquares :
        /\ sq + Forward(c) \in Squares
        /\ pawnAttacks(c, sq) \subseteq passedPawnMasks(c, sq)
        /\ pawnAttacks(c, sq + Forward(c)) \subseteq passedPawnMasks(c, sq)
        /\ pawnAttacks(c, sq) \cap pawnAttacks(c, sq + Forward(c)) = {}
\* C29: for every pawn, threats and pushThreats are disjoint subsets of stoppers, so
\* leftovers = stoppers ^ threats ^ pushThreats is the set of stoppers that are
\* neither, and the square sq + Forward they are computed from is a square of the
\* board; the candidate passers the pawn loop counted are the pawns with stoppers
\* that are all threats or pushThreats and with enough push support
LeftoversAreOtherStoppers ==
    /\ ForwardAndMasks
    /\ \A c \in Colours :
           /\ \A sq \in PawnsOf(c) :
                  /\ sq \in PawnSquares
                  /\ sq + Forward(c) \in Squares
                  /\ ThreatsOf(c, sq) \subseteq StoppersOf(c, sq)
                  /\ PushThreatsOf(c, sq) \subseteq StoppersOf(c, sq)
                  /\ ThreatsOf(c, sq) \cap PushThreatsOf(c, sq) = {}
                  /\ LeftoversOf(c, sq) =
                         StoppersOf(c, sq) \ (ThreatsOf(c, sq) \cup PushThreatsOf(c, sq))
           /\ StageDone("pawns", c) /\ frames[1].pkentry = NULL =>
                  Tally(KeysOf(T, {"PawnCandidatePasser"}, c), T) =
                      Cardinality({ sq \in PawnsOf(c) :
                          /\ StoppersOf(c, sq) # {}
                          /\ StoppersOf(c, sq) \subseteq
                                 ThreatsOf(c, sq) \cup PushThreatsOf(c, sq)
                          /\ popcount(PushSupportOf(c, sq)) >=
                                 popcount(PushThreatsOf(c, sq)) })
\* the first call has returned on a position with a pawn that has a threat and a
\* push threat, and a pawn with a push threat and a stopper that is neither
WitnessLeftoversAreOtherStoppers ==
    /\ FirstCallDone
    /\ \E c \in Colours : \E sq \in PawnsOf(c) :
           ThreatsOf(c, sq) # {} /\ PushThreatsOf(c, sq) # {}
    /\ \E c \in Colours : \E sq \in PawnsOf(c) :
           PushThreatsOf(c, sq) # {} /\ LeftoversOf(c, sq) # {}

(***************************************************************************)
(* The attack maps under other orders of the evaluators and of the pieces  *)
(***************************************************************************)
\* the loop of the evaluator of kind k over the pieces bb of side c, the piece on the
\* highest square popped first where the code pops the one on the lowest
RECURSIVE PopHighestFirst(_, _, _, _)
PopHighestFirst(st, k, bb, c) ==
    IF bb = {} THEN st
    ELSE LET sq == getmsb(bb)
             next == CASE k = KNIGHT -> evaluateKnightsBody(st, sq, c)
                       [] k = BISHOP -> evaluateBishopsBody(st, sq, c)
                       [] k = ROOK -> evaluateRooksBody(st, sq, c)
                       [] k = QUEEN -> evaluateQueensBody(st, sq, c)
         IN  PopHighestFirst(next, k, bb \ {sq}, c)
\* the evaluator of kind k for side c, its pieces popped in the code's order or in
\* the other
EvaluateKind(st, k, c, highestFirst) ==
    IF k = PAWN \/ ~highestFirst
    THEN Evaluator(Stages[k + 1], st, c)
    ELSE PopHighestFirst([ ei |-> [st.ei EXCEPT !.attackedBy[c][k] = {}],
                           board |-> st.board, T |-> st.T, eval |-> 0 ],
                         k, st.board.pieces[k] \cap st.board.colours[c], c)
\* the evaluators of the kinds of order run one after the other, White's call and
\* then Black's for each
RECURSIVE RunKinds(_, _, _, _)
RunKinds(st, order, i, highestFirst) ==
    IF i > Len(order) THEN st
    ELSE LET w == EvaluateKind(st, order[i], WHITE, highestFirst)
             b == EvaluateKind(w, order[i], BLACK, highestFirst)
         IN  RunKinds(b, order, i + 1, highestFirst)
\* attacked, attackedBy and attackedBy2 once the call of thread 1 has run the
\* evaluators in that order, from a memory that held anything
MapsAfter(order, highestFirst) ==
    LET st == RunKinds([ ei |-> initializeEvalInfo(Garbage(Full, 77), board[1], TableOf(1)),
                         board |-> board[1], T |-> EmptyTrace ],
                       order, 1, highestFirst)
    IN  << st.ei.attacked, st.ei.attackedBy, st.ei.attackedBy2 >>
\* the orders in which the kinds of a set can be taken
OrdersOf(kinds) ==
    { o \in [1..Cardinality(kinds) -> kinds] :
        \A i, j \in 1..Cardinality(kinds) : o[i] = o[j] => i = j }
\* in how many of the accumulated attack sets of side c the square s lies: the
\* king's, the pawns' span, and one per knight, bishop, rook and queen
SetsHolding(c, s) ==
      Bool(s \in kingAttacks(frames[1].kingSquare[c]))
    + Bool(s \in frames[1].pawnAttacks[c])
    + Cardinality({ sq \in board[1].colours[c] :
                      \E k \in PieceKinds : /\ sq \in board[1].pieces[k]
                                            /\ s \in AttacksOfPiece(frames[1], c, k, sq) })
MapsNow == << frames[1].attacked, frames[1].attackedBy, frames[1].attackedBy2 >>
AttackedBy2IsTwoSets ==
    \A c \in Colours :
        frames[1].attackedBy2[c] = { s \in Squares : SetsHolding(c, s) >= 2 }
\* C30 as stated: after the queen step attacked, attackedBy and attackedBy2 are what
\* they would be with the pieces of a kind popped in another order and with the
\* kinds, pawns included, in any order, and attackedBy2 is the set of squares in at
\* least two of the accumulated attack sets
AnyOrderOfKinds ==
    KingsStart =>
        /\ \A o \in OrdersOf({PAWN} \cup PieceKinds), highestFirst \in BOOLEAN :
               MapsAfter(o, highestFirst) = MapsNow
        /\ AttackedBy2IsTwoSets
\* C30 as the code has it: the maps are what they would be with the pieces of a kind
\* popped in another order and with the knights, bishops, rooks and queens in any
\* order after the pawns, whose evaluator assigns attackedBy2 where the others add to
\* it; attackedBy2 is the set of squares in at least two of the attack sets
OrderIndependence ==
    KingsStart =>
        /\ \A o \in OrdersOf(PieceKinds), highestFirst \in BOOLEAN :
               MapsAfter(<< PAWN >> \o o, highestFirst) = MapsNow
        /\ AttackedBy2IsTwoSets
\* the king evaluators start on a position where both sides have two pieces of one
\* kind, pieces of every kind, and squares that are attacked twice
WitnessOrderIndependence ==
    /\ KingsStart
    /\ \A c \in Colours :
           /\ frames[1].attackedBy2[c] # {}
           /\ \A k \in PieceKinds : board[1].pieces[k] \cap board[1].colours[c] # {}
           /\ \E k \in PieceKinds : popcount(board[1].pieces[k] \cap board[1].colours[c]) >= 2

====
